---------------------------- MODULE Spec2Model ----------------------------
(***************************************************************************)
(* The calibration association and dependency-resolution engine of        *)
(* ndmapper (ndmapper/calibrations.py): the three-part calibration         *)
(* dictionary, add_cal_entry (the Entry Recorder) and recurse_file_cals    *)
(* (the Dependency Resolver).                                              *)
(*                                                                         *)
(* Python strings are sequences of character codes, so that sorting,      *)
(* splitting at the extension separator and label formatting are computed  *)
(* as the code computes them.  Python dicts are functions whose DOMAIN is  *)
(* the key set.  None is the reserved value <<0>>, which no string equals. *)
(***************************************************************************)
EXTENDS Integers, Sequences, FiniteSets, TLC

(***************************************************************************)
(* Bounds of the model.                                                    *)
(***************************************************************************)
\* number of top-level calls (add_cal_entry or recurse_file_cals) in a run
MaxCalls == 2
\* length of the match lists handed to add_cal_entry / returned by lookup_fn
MaxMatches == 2
\* depth of the Python call stack at which the interpreter gives up
\* (sys.getrecursionlimit(), scaled down)
RecursionLimit == 5
\* number of calls in a session of direct add_cal_entry calls only
MaxAddCalls == 3

(***************************************************************************)
(* Values.                                                                 *)
(***************************************************************************)
None == <<0>>
EmptyDict == << >>

\* Python truthiness of a string-or-None value ("if dep_label:", "if val")
Truthy(v) == v # None /\ v # << >>

\* file identifiers: "a.x" and "c"
File_ax == <<97, 46, 120>>
File_c == <<99>>
Files == {File_ax, File_c}

\* calibration / observation types: "t" (target), "f" (flat), "b" (bias)
Type_t == <<116>>
Type_f == <<102>>
Type_b == <<98>>
CalTypes == {Type_f, Type_b}
ObsTypes == {Type_t, Type_f, Type_b}

\* checksums: "p", "q" or None
Cks_p == <<112>>
Cks_q == <<113>>

\* the (filename, checksum) pairs a look-up can produce
Matches ==
    {<<File_ax, None>>, <<File_ax, Cks_p>>, <<File_ax, Cks_q>>,
     <<File_c, None>>}

RECURSIVE SeqsUpTo(_, _)
SeqsUpTo(S, n) ==
    IF n = 0 THEN {<< >>}
    ELSE LET shorter == SeqsUpTo(S, n - 1)
         IN  shorter \cup {Append(s, e) : s \in shorter, e \in S}

\* well-formed match lists
MatchLists == SeqsUpTo(Matches, MaxMatches)

\* what lookup_fn returns when it finds something or nothing: no match, one
\* file, two files (not in sorted order)
LookupResults ==
    {<< >>, <<<<File_c, None>>>>, <<<<File_ax, Cks_p>>>>,
     <<<<File_c, None>>, <<File_ax, Cks_q>>>>}

\* a "matches" argument that is not a list of pairs: one element has 3 items
BadMatches == <<<<File_c, None, None>>>>

(***************************************************************************)
(* Dict helpers.                                                           *)
(***************************************************************************)
Put(d, k, v) == [y \in DOMAIN d \cup {k} |-> IF y = k THEN v ELSE d[y]]

(***************************************************************************)
(* String helpers.                                                         *)
(***************************************************************************)
\* Python's "<" on str: lexicographic by character code
RECURSIVE StrLess(_, _)
StrLess(s, t) ==
    IF t = << >> THEN FALSE
    ELSE IF s = << >> THEN TRUE
    ELSE IF s[1] # t[1] THEN s[1] < t[1]
    ELSE StrLess(Tail(s), Tail(t))

\* Python 2's "<" on str-or-None: None sorts before every string
ValLess(c, d) ==
    IF c = None THEN d # None
    ELSE IF d = None THEN FALSE
    ELSE StrLess(c, d)

\* Python's "<" on the (filename, checksum) tuples
MatchLess(m1, m2) ==
    IF m1[1] # m2[1] THEN StrLess(m1[1], m2[1]) ELSE ValLess(m1[2], m2[2])

\* insert m into the sorted list s, after any elements equal to it
RECURSIVE Insert(_, _)
Insert(s, m) ==
    IF s = << >> THEN <<m>>
    ELSE IF MatchLess(m, s[1]) THEN <<m>> \o s
    ELSE <<s[1]>> \o Insert(Tail(s), m)

\* sorted() left out: the matches stay in look-up order
sorted_unsorted(matches) == matches

\* sorted(matches): a new list, ascending, stable
RECURSIVE sorted(_)
sorted(matches) ==
    IF matches = << >> THEN << >>
    ELSE Insert(sorted(SubSeq(matches, 1, Len(matches) - 1)),
                matches[Len(matches)])

\* str(n) for n >= 0 as used by '{0}_{1}'.format(label_base, n)
RECURSIVE str(_)
str(n) == IF n < 10 THEN <<48 + n>> ELSE str(n \div 10) \o <<48 + (n % 10)>>

\* the two arguments of format taken in the wrong order
Format_swapped(x, y) == y \o <<95>> \o x

\* '{0}_{1}'.format(x, y) for two strings
Format(x, y) == x \o <<95>> \o y

\* position of the first extension separator in path, 0 if there is none
RECURSIVE FindSep(_, _)
FindSep(path, i) ==
    IF i > Len(path) THEN 0
    ELSE IF path[i] = 46 THEN i
    ELSE FindSep(path, i + 1)

\* libutils.splitext: <<base, ext>> with ext = None when there is none
splitext(path) ==
    LET i == FindSep(path, 1)
    IN  IF i = 0 THEN <<path, None>>
        ELSE <<SubSeq(path, 1, i - 1), SubSeq(path, i + 1, Len(path))>>

\* libutils.addext: reattach the extension
addext(path, ext) == IF ext = None THEN path ELSE path \o <<46>> \o ext

(***************************************************************************)
(* init_cal_dict() with no file: the empty calibration dictionary.         *)
(***************************************************************************)
init_cal_dict ==
    [associations |-> EmptyDict, calibrations |-> EmptyDict,
     checksums |-> EmptyDict]

(***************************************************************************)
(* add_cal_entry.                                                          *)
(***************************************************************************)
\* the shape check at the head of add_cal_entry
ValidMatches(matches) == \A i \in DOMAIN matches : Len(matches[i]) = 2

\* match_names = [match[0] for match in matches]
MatchNames(matches) == [i \in DOMAIN matches |-> matches[i][1]]

\* the label tried after n collisions
LabelAt(label_base, ref_ext, n) ==
    IF n = 0 THEN addext(label_base, ref_ext)
    ELSE addext(Format(label_base, str(n)), ref_ext)

\* the disambiguation loop never entered
Collides_never(calibrations, label, match_names) == FALSE

\* the loop condition of the disambiguation loop
Collides(calibrations, label, match_names) ==
    label \in DOMAIN calibrations /\ calibrations[label] # match_names

\* n += 2 in place of n += 1: every other number is passed over
RECURSIVE FindLabel_skip(_, _, _, _, _)
FindLabel_skip(calibrations, label_base, ref_ext, match_names, n) ==
    IF Collides(calibrations, LabelAt(label_base, ref_ext, n), match_names)
    THEN FindLabel_skip(calibrations, label_base, ref_ext, match_names,
                        n + 2)
    ELSE n

\* the disambiguation loop: the number of the first label that is free or
\* already holds match_names
RECURSIVE FindLabel(_, _, _, _, _)
FindLabel(calibrations, label_base, ref_ext, match_names, n) ==
    IF Collides(calibrations, LabelAt(label_base, ref_ext, n), match_names)
    THEN FindLabel(calibrations, label_base, ref_ext, match_names, n + 1)
    ELSE n

\* the label taken from the last of the sorted matches
ChooseLabel_last(calibrations, cal_type, smatches) ==
    LET ref == splitext(smatches[Len(smatches)][1])
        label_base == Format(ref[1], cal_type)
        n == FindLabel(calibrations, label_base, ref[2],
                       MatchNames(smatches), 0)
    IN  LabelAt(label_base, ref[2], n)

\* the label add_cal_entry chooses for (sorted) matches of cal_type
ChooseLabel(calibrations, cal_type, smatches) ==
    LET ref == splitext(smatches[1][1])
        label_base == Format(ref[1], cal_type)
        n == FindLabel(calibrations, label_base, ref[2],
                       MatchNames(smatches), 0)
    IN  LabelAt(label_base, ref[2], n)

\* the membership test inverted: a new label is never stored
AddCalibration_skip(calibrations, label, match_names) ==
    IF label \in DOMAIN calibrations
    THEN Put(calibrations, label, match_names)
    ELSE calibrations

\* "if label not in calibrations: calibrations[label] = match_names"
AddCalibration(calibrations, label, match_names) ==
    IF label \notin DOMAIN calibrations
    THEN Put(calibrations, label, match_names)
    ELSE calibrations

\* "key not in checksums" left out: a later checksum replaces the first
RecordsChecksum_overwrite(checksums, key, val) == Truthy(val)

\* whether the checksum loop records val for key
RecordsChecksum(checksums, key, val) ==
    Truthy(val) /\ key \notin DOMAIN checksums

\* "for key, val in matches: if val and key not in checksums: ..."
RECURSIVE AddChecksums(_, _)
AddChecksums(checksums, smatches) ==
    IF smatches = << >> THEN checksums
    ELSE LET key == smatches[1][1]
             val == smatches[1][2]
             next == IF RecordsChecksum(checksums, key, val)
                     THEN Put(checksums, key, val)
                     ELSE checksums
         IN  AddChecksums(next, Tail(smatches))

\* "associations[filename] = {}" done without the membership test: the
\* file's other associations are lost
SetAssociation_reset(associations, filename, cal_type, value) ==
    Put(associations, filename, Put(EmptyDict, cal_type, value))

\* setdefault in place of assignment: an existing value is kept
SetAssociation_keep(associations, filename, cal_type, value) ==
    LET inner == IF filename \in DOMAIN associations
                 THEN associations[filename] ELSE EmptyDict
    IN  IF cal_type \in DOMAIN inner
        THEN associations
        ELSE Put(associations, filename, Put(inner, cal_type, value))

\* associations[filename][cal_type] = value, creating associations[filename]
SetAssociation(associations, filename, cal_type, value) ==
    LET inner == IF filename \in DOMAIN associations
                 THEN associations[filename] ELSE EmptyDict
    IN  Put(associations, filename, Put(inner, cal_type, value))

\* no disambiguation: the first label is taken and its list overwritten
add_cal_entry_overwrite(filename, cal_type, matches, cd) ==
    IF matches = << >>
    THEN [cd EXCEPT !.associations =
                      SetAssociation(@, filename, cal_type, None)]
    ELSE LET smatches == sorted(matches)
             ref == splitext(smatches[1][1])
             label == LabelAt(Format(ref[1], cal_type), ref[2], 0)
         IN  [associations |-> SetAssociation(cd.associations, filename,
                                               cal_type, label),
              calibrations |-> Put(cd.calibrations, label,
                                   MatchNames(smatches)),
              checksums |-> AddChecksums(cd.checksums, smatches)]

\* no placeholder: an empty list of matches recorded as an empty group
add_cal_entry_emptygroup(filename, cal_type, matches, cd) ==
    LET smatches == sorted(matches)
        label == IF matches = << >> THEN Format(filename, cal_type)
                 ELSE ChooseLabel(cd.calibrations, cal_type, smatches)
    IN  [associations |-> SetAssociation(cd.associations, filename,
                                          cal_type, label),
         calibrations |-> AddCalibration(cd.calibrations, label,
                                         MatchNames(smatches)),
         checksums |-> AddChecksums(cd.checksums, smatches)]

\* no matches: the placeholder recorded and the checksums cleared
add_cal_entry_purge(filename, cal_type, matches, cd) ==
    IF matches = << >>
    THEN [cd EXCEPT !.associations =
                      SetAssociation(@, filename, cal_type, None),
                    !.checksums = EmptyDict]
    ELSE LET smatches == sorted(matches)
             label == ChooseLabel(cd.calibrations, cal_type, smatches)
         IN  [associations |-> SetAssociation(cd.associations, filename,
                                               cal_type, label),
              calibrations |-> AddCalibration(cd.calibrations, label,
                                              MatchNames(smatches)),
              checksums |-> AddChecksums(cd.checksums, smatches)]

\* the dictionary after add_cal_entry returns, for matches of valid shape
add_cal_entry(filename, cal_type, matches, cd) ==
    IF matches = << >>
    THEN [cd EXCEPT !.associations =
                      SetAssociation(@, filename, cal_type, None)]
    ELSE LET smatches == sorted(matches)
             label == ChooseLabel(cd.calibrations, cal_type, smatches)
         IN  [associations |-> SetAssociation(cd.associations, filename,
                                               cal_type, label),
              calibrations |-> AddCalibration(cd.calibrations, label,
                                              MatchNames(smatches)),
              checksums |-> AddChecksums(cd.checksums, smatches)]


(***************************************************************************)
(* Dependency graphs supplied by the caller (observation type -> ordered   *)
(* list of calibration types).                                             *)
(***************************************************************************)
\* {'t': ['f', 'b'], 'f': ['b'], 'b': []}: acyclic, every type has an entry
Deps_chain ==
    Put(Put(Put(EmptyDict, Type_t, <<Type_f, Type_b>>),
            Type_f, <<Type_b>>), Type_b, << >>)

\* {'t': ['t'], 'f': ['b'], 'b': ['f']}: a self-cycle and a two-type cycle
Deps_cyclic ==
    Put(Put(Put(EmptyDict, Type_t, <<Type_t>>),
            Type_f, <<Type_b>>), Type_b, <<Type_f>>)

\* {'t': ['f']}: 'f' is listed but has no entry of its own
Deps_missing == Put(EmptyDict, Type_t, <<Type_f>>)

DepGraphs == {Deps_chain, Deps_cyclic, Deps_missing}

\* dependencies.get(obs_type, []): a missing key reads as no dependencies
DepsEntry_default(deps, obs_type) ==
    IF obs_type \in DOMAIN deps
    THEN [found |-> TRUE, list |-> deps[obs_type]]
    ELSE [found |-> TRUE, list |-> << >>]

\* dependencies[obs_type]: the list, or the KeyError of a missing key
DepsEntry(deps, obs_type) ==
    IF obs_type \in DOMAIN deps
    THEN [found |-> TRUE, list |-> deps[obs_type]]
    ELSE [found |-> FALSE, list |-> << >>]

(***************************************************************************)
(* State.                                                                  *)
(***************************************************************************)
VARIABLES
    cal_dict,       \* the calibration dictionary
    dependencies,   \* the caller's dependency graph
    stack,          \* the active recurse_file_cals frames, innermost last
    hist,           \* the top-level calls made so far, latest last
    store0,         \* cal_dict when the latest top-level call began
    last_add,       \* the latest add_cal_entry invocation, direct or nested
    n_lookups,      \* (file, type) -> number of lookup_fn invocations
    n_valid,        \* (file, type) -> invocations that returned valid matches
    call_lookups,   \* lookup_fn invocations in the latest top-level call
    disk,           \* the JSON cache file: <<state, content>>
    hdulist         \* the FITS file: its HDUs in order, none if no file

vars == <<cal_dict, dependencies, stack, hist, store0, last_add,
          n_lookups, n_valid, call_lookups, disk, hdulist>>

\* the cache file does not exist
NoDisk == <<"absent", <<"str", << >>, << >>>>>>

Pairs == Files \X ObsTypes

\* no add_cal_entry invocation yet
NoAdd ==
    [done |-> FALSE, raised |-> FALSE, filename |-> None, cal_type |-> None,
     matches |-> << >>, before |-> init_cal_dict]

Init ==
    /\ cal_dict = init_cal_dict
    /\ dependencies \in DepGraphs
    /\ stack = << >>
    /\ hist = << >>
    /\ store0 = init_cal_dict
    /\ last_add = NoAdd
    /\ n_lookups = [p \in Pairs |-> 0]
    /\ n_valid = [p \in Pairs |-> 0]
    /\ call_lookups = 0
    /\ disk = NoDisk
    /\ hdulist = << >>

\* how the latest top-level call ended ("running" while it has not)
Outcome == IF hist = << >> THEN "none" ELSE hist[Len(hist)].outcome

\* the latest top-level call
Cur == hist[Len(hist)]

(***************************************************************************)
(* Top-level calls.                                                        *)
(***************************************************************************)
Idle == stack = << >>

\* the value stored at associations[filename][cal_type]
AssocOf(cd, filename, cal_type) == cd.associations[filename][cal_type]

\* the caller may make another top-level call
CanCall == Idle /\ Len(hist) < MaxCalls

\* bookkeeping common to the start of every top-level call
BeginCall(op, filename, type, matches, label, new_keys, result) ==
    /\ hist' = Append(hist, [op |-> op, filename |-> filename, type |-> type,
                             matches |-> matches, label |-> label,
                             new_keys |-> new_keys,
                             outcome |-> result])
    /\ store0' = cal_dict
    /\ call_lookups' = 0

\* the record of one add_cal_entry invocation
AddRecord(filename, cal_type, matches, raised) ==
    [done |-> TRUE, raised |-> raised, filename |-> filename,
     cal_type |-> cal_type, matches |-> matches, before |-> cal_dict]

\* a direct add_cal_entry(filename, cal_type, matches, cal_dict) that returns
Do_add_cal_entry(filename, cal_type, matches) ==
    /\ ValidMatches(matches)
    /\ cal_dict' = add_cal_entry(filename, cal_type, matches, cal_dict)
    /\ BeginCall("add_cal_entry", filename, cal_type, matches,
                 AssocOf(cal_dict', filename, cal_type),
                 DOMAIN cal_dict'.calibrations \ DOMAIN cal_dict.calibrations,
                 "returned")
    /\ last_add' = AddRecord(filename, cal_type, matches, FALSE)
    /\ UNCHANGED <<disk, hdulist, dependencies, stack, n_lookups, n_valid>>

\* the shape check made after associations[filename] is created
Do_add_cal_entry_invalid_late(filename, cal_type, matches) ==
    /\ ~ValidMatches(matches)
    /\ cal_dict' = [cal_dict EXCEPT !.associations =
                       IF filename \in DOMAIN @ THEN @
                       ELSE Put(@, filename, EmptyDict)]
    /\ BeginCall("add_cal_entry", filename, cal_type, matches, None, {},
                 "ValueError")
    /\ last_add' = AddRecord(filename, cal_type, matches, TRUE)
    /\ UNCHANGED <<disk, hdulist, dependencies, stack, n_lookups, n_valid>>

\* a direct add_cal_entry whose matches fail the shape check: ValueError
Do_add_cal_entry_invalid(filename, cal_type, matches) ==
    /\ ~ValidMatches(matches)
    /\ BeginCall("add_cal_entry", filename, cal_type, matches, None, {},
                 "ValueError")
    /\ last_add' = AddRecord(filename, cal_type, matches, TRUE)
    /\ UNCHANGED <<disk, hdulist, cal_dict, dependencies, stack, n_lookups,
                   n_valid>>

\* the two direct calls, in a session that mixes them with recurse_file_cals
Call_add_cal_entry(filename, cal_type, matches) ==
    CanCall /\ Do_add_cal_entry(filename, cal_type, matches)

Call_add_cal_entry_invalid(filename, cal_type, matches) ==
    CanCall /\ Do_add_cal_entry_invalid(filename, cal_type, matches)

\* the two direct calls, in a session of add_cal_entry calls only
CanAdd == Idle /\ Len(hist) < MaxAddCalls

Session_add_cal_entry(filename, cal_type, matches) ==
    CanAdd /\ Do_add_cal_entry(filename, cal_type, matches)

Session_add_cal_entry_invalid(filename, cal_type, matches) ==
    CanAdd /\ Do_add_cal_entry_invalid(filename, cal_type, matches)

(***************************************************************************)
(* recurse_file_cals, one step at a time.  A frame is                      *)
(*   [filename, obs_type, pc, k, j]                                        *)
(* with k the index of cal_type in dependencies[obs_type] and j the index  *)
(* of dep_file in calibrations[dep_label].                                 *)
(***************************************************************************)
NewFrame(filename, obs_type) ==
    [filename |-> filename, obs_type |-> obs_type, pc |-> "enter",
     k |-> 1, j |-> 1]

Top == stack[Len(stack)]

SetTop(fr) == [stack EXCEPT ![Len(stack)] = fr]

\* the list the frame's outer loop runs over
DepsOf(fr) == DepsEntry(dependencies, fr.obs_type).list

\* cal_type of the frame's current loop iteration
CalTypeOf(fr) == DepsOf(fr)[fr.k]

\* the guard dropped: every iteration looks up and records again
NeedsLookup_always(associations, filename, cal_type) == TRUE

\* a None placeholder taken for a missing association and looked up again
NeedsLookup_requery(associations, filename, cal_type) ==
    IF filename \notin DOMAIN associations THEN TRUE
    ELSE IF cal_type \notin DOMAIN associations[filename] THEN TRUE
    ELSE associations[filename][cal_type] = None

\* "filename not in associations or cal_type not in associations[filename]"
NeedsLookup(associations, filename, cal_type) ==
    IF filename \notin DOMAIN associations THEN TRUE
    ELSE cal_type \notin DOMAIN associations[filename]

\* an exception leaves through every frame: nothing catches it
Raise(exc) ==
    /\ stack' = << >>
    /\ hist' = [hist EXCEPT ![Len(hist)].outcome = exc]

\* the caller invokes recurse_file_cals(filename, obs_type, ...)
Call_recurse_file_cals(filename, obs_type) ==
    /\ CanCall
    /\ BeginCall("recurse_file_cals", filename, obs_type, << >>, None, {},
                 "running")
    /\ stack' = <<NewFrame(filename, obs_type)>>
    /\ UNCHANGED <<disk, hdulist, cal_dict, dependencies, last_add, n_lookups,
                   n_valid>>

\* the interpreter refuses a call deeper than its recursion limit
RecursionError ==
    /\ ~Idle
    /\ Top.pc = "enter"
    /\ Len(stack) > RecursionLimit
    /\ Raise("RuntimeError")
    /\ UNCHANGED <<disk, hdulist, cal_dict, dependencies, store0, last_add,
                   n_lookups, n_valid, call_lookups>>

\* "for cal_type in dependencies[obs_type]" with obs_type not a key
DepsKeyError ==
    /\ ~Idle
    /\ Top.pc = "enter"
    /\ Len(stack) <= RecursionLimit
    /\ ~DepsEntry(dependencies, Top.obs_type).found
    /\ Raise("KeyError")
    /\ UNCHANGED <<disk, hdulist, cal_dict, dependencies, store0, last_add,
                   n_lookups, n_valid, call_lookups>>

\* "for cal_type in dependencies[obs_type]": the loop starts
EnterLoop ==
    /\ ~Idle
    /\ Top.pc = "enter"
    /\ Len(stack) <= RecursionLimit
    /\ DepsEntry(dependencies, Top.obs_type).found
    /\ stack' = SetTop([Top EXCEPT !.pc = "lookup"])
    /\ UNCHANGED <<disk, hdulist, cal_dict, dependencies, hist, store0,
                   last_add, n_lookups, n_valid, call_lookups>>

\* the frame is at the head of an iteration of its outer loop
AtCalType ==
    /\ ~Idle
    /\ Top.pc = "lookup"
    /\ Top.k <= Len(DepsOf(Top))

\* the iteration has no association yet: lookup_fn is invoked
AtLookup ==
    /\ AtCalType
    /\ NeedsLookup(cal_dict.associations, Top.filename, CalTypeOf(Top))

CountLookup ==
    /\ n_lookups' =
          [n_lookups EXCEPT ![<<Top.filename, CalTypeOf(Top)>>] = @ + 1]
    /\ call_lookups' = call_lookups + 1

\* lookup_fn returns a list of matches and add_cal_entry records it
Lookup(matches) ==
    /\ AtLookup
    /\ ValidMatches(matches)
    /\ CountLookup
    /\ n_valid' = [n_valid EXCEPT ![<<Top.filename, CalTypeOf(Top)>>] = @ + 1]
    /\ cal_dict' = add_cal_entry(Top.filename, CalTypeOf(Top), matches,
                                 cal_dict)
    /\ last_add' = AddRecord(Top.filename, CalTypeOf(Top), matches, FALSE)
    /\ stack' = SetTop([Top EXCEPT !.pc = "recurse", !.j = 1])
    /\ UNCHANGED <<disk, hdulist, dependencies, hist, store0>>

\* lookup_fn returns something add_cal_entry rejects with ValueError
LookupInvalid(matches) ==
    /\ AtLookup
    /\ ~ValidMatches(matches)
    /\ CountLookup
    /\ last_add' = AddRecord(Top.filename, CalTypeOf(Top), matches, TRUE)
    /\ Raise("ValueError")
    /\ UNCHANGED <<disk, hdulist, cal_dict, dependencies, store0, n_valid>>

\* the failure caught and a None placeholder recorded in its place
LookupRaises_placeholder ==
    /\ AtLookup
    /\ CountLookup
    /\ cal_dict' = add_cal_entry(Top.filename, CalTypeOf(Top), << >>,
                                 cal_dict)
    /\ Raise("LookupError")
    /\ UNCHANGED <<disk, hdulist, dependencies, store0, last_add, n_valid>>

\* lookup_fn itself raises
LookupRaises ==
    /\ AtLookup
    /\ CountLookup
    /\ Raise("LookupError")
    /\ UNCHANGED <<disk, hdulist, cal_dict, dependencies, store0, last_add,
                   n_valid>>

\* an association already recorded ends the iteration: its group is not
\* recursed into
SkipLookup_norecurse ==
    /\ AtCalType
    /\ ~NeedsLookup(cal_dict.associations, Top.filename, CalTypeOf(Top))
    /\ stack' = SetTop([Top EXCEPT !.k = @ + 1])
    /\ UNCHANGED <<disk, hdulist, cal_dict, dependencies, hist, store0,
                   last_add, n_lookups, n_valid, call_lookups>>

\* an association is already recorded: no look-up
SkipLookup ==
    /\ AtCalType
    /\ ~NeedsLookup(cal_dict.associations, Top.filename, CalTypeOf(Top))
    /\ stack' = SetTop([Top EXCEPT !.pc = "recurse", !.j = 1])
    /\ UNCHANGED <<disk, hdulist, cal_dict, dependencies, hist, store0,
                   last_add, n_lookups, n_valid, call_lookups>>

\* dep_label = associations[filename][cal_type]
DepLabel(fr) == AssocOf(cal_dict, fr.filename, CalTypeOf(fr))

\* dep_label names no entry of calibrations: calibrations[dep_label] fails
DanglingLabel(fr) ==
    /\ Truthy(DepLabel(fr))
    /\ DepLabel(fr) \notin DOMAIN cal_dict.calibrations

\* the inner loop cut short after the first dep_file of the group
HasDepFile_first(fr) ==
    /\ Truthy(DepLabel(fr))
    /\ fr.j <= 1

\* whether the inner loop has a dep_file left to recurse into
HasDepFile(fr) ==
    /\ Truthy(DepLabel(fr))
    /\ ~DanglingLabel(fr)
    /\ fr.j <= Len(cal_dict.calibrations[DepLabel(fr)])

\* the recursive call given the caller's obs_type instead of cal_type
Descend_sametype ==
    /\ ~Idle
    /\ Top.pc = "recurse"
    /\ HasDepFile(Top)
    /\ stack' = Append(SetTop([Top EXCEPT !.j = @ + 1]),
                       NewFrame(cal_dict.calibrations[DepLabel(Top)][Top.j],
                                Top.obs_type))
    /\ UNCHANGED <<disk, hdulist, cal_dict, dependencies, hist, store0,
                   last_add, n_lookups, n_valid, call_lookups>>

\* recurse_file_cals(dep_file, cal_type, ...) for the next dep_file
Descend ==
    /\ ~Idle
    /\ Top.pc = "recurse"
    /\ HasDepFile(Top)
    /\ stack' = Append(SetTop([Top EXCEPT !.j = @ + 1]),
                       NewFrame(cal_dict.calibrations[DepLabel(Top)][Top.j],
                                CalTypeOf(Top)))
    /\ UNCHANGED <<disk, hdulist, cal_dict, dependencies, hist, store0,
                   last_add, n_lookups, n_valid, call_lookups>>

\* "for dep_file in calibrations[dep_label]" with dep_label not a key
LabelKeyError ==
    /\ ~Idle
    /\ Top.pc = "recurse"
    /\ DanglingLabel(Top)
    /\ Raise("KeyError")
    /\ UNCHANGED <<disk, hdulist, cal_dict, dependencies, store0, last_add,
                   n_lookups, n_valid, call_lookups>>

\* no label, or every dep_file done: on to the next cal_type
NextCalType ==
    /\ ~Idle
    /\ Top.pc = "recurse"
    /\ ~DanglingLabel(Top)
    /\ ~HasDepFile(Top)
    /\ stack' = SetTop([Top EXCEPT !.pc = "lookup", !.k = @ + 1])
    /\ UNCHANGED <<disk, hdulist, cal_dict, dependencies, hist, store0,
                   last_add, n_lookups, n_valid, call_lookups>>

\* "return cal_dict"
Return ==
    /\ ~Idle
    /\ Top.pc = "lookup"
    /\ Top.k > Len(DepsOf(Top))
    /\ stack' = SubSeq(stack, 1, Len(stack) - 1)
    /\ hist' = IF Len(stack) = 1
               THEN [hist EXCEPT ![Len(hist)].outcome = "returned"]
               ELSE hist
    /\ UNCHANGED <<disk, hdulist, cal_dict, dependencies, store0, last_add,
                   n_lookups, n_valid, call_lookups>>

Next ==
    \/ \E f \in Files, t \in CalTypes, m \in MatchLists :
          Call_add_cal_entry(f, t, m)
    \/ \E f \in Files, t \in CalTypes :
          Call_add_cal_entry_invalid(f, t, BadMatches)
    \/ \E f \in Files, o \in ObsTypes : Call_recurse_file_cals(f, o)
    \/ RecursionError
    \/ DepsKeyError
    \/ EnterLoop
    \/ \E m \in LookupResults : Lookup(m)
    \/ LookupInvalid(BadMatches)
    \/ LookupRaises
    \/ SkipLookup
    \/ Descend
    \/ NextCalType
    \/ Return

Spec == Init /\ [][Next]_vars

\* a session of direct add_cal_entry calls only, on one dictionary
InitAdd == Init /\ dependencies = Deps_chain

NextAdd ==
    \/ \E f \in Files, t \in CalTypes, m \in MatchLists :
          Session_add_cal_entry(f, t, m)
    \/ \E f \in Files, t \in CalTypes :
          Session_add_cal_entry_invalid(f, t, BadMatches)

SpecAdd == InitAdd /\ [][NextAdd]_vars

(***************************************************************************)
(* recurse_file_cals on the acyclic graph, with a lookup_fn that returns   *)
(* lists of matches.  Once called, the function runs: each of its steps    *)
(* is taken if it stays possible (the interpreter executes the next        *)
(* statement, lookup_fn returns).  The caller need not call again.         *)
(***************************************************************************)
InitResolve == Init /\ dependencies = Deps_chain

NextResolve ==
    \/ \E f \in Files, t \in CalTypes, m \in LookupResults :
          Call_add_cal_entry(f, t, m)
    \/ \E f \in Files, o \in ObsTypes : Call_recurse_file_cals(f, o)
    \/ EnterLoop
    \/ \E m \in LookupResults : Lookup(m)
    \/ SkipLookup
    \/ Descend
    \/ NextCalType
    \/ Return

FairResolve ==
    /\ WF_vars(EnterLoop)
    /\ WF_vars(\E m \in LookupResults : Lookup(m))
    /\ WF_vars(SkipLookup)
    /\ WF_vars(Descend)
    /\ WF_vars(NextCalType)
    /\ WF_vars(Return)

SpecResolve == InitResolve /\ [][NextResolve]_vars /\ FairResolve

(***************************************************************************)
(* A session of add_cal_entry calls in which one calibration type's name   *)
(* is another's followed by '_1': "f" and "f_1".                           *)
(***************************************************************************)
Type_f1 == <<102, 95, 49>>

LabelTypes == {Type_f, Type_f1}

NextLabel ==
    \E f \in Files, t \in LabelTypes, m \in LookupResults :
        Session_add_cal_entry(f, t, m)

SpecLabel == InitAdd /\ [][NextLabel]_vars

(***************************************************************************)
(* A session of recurse_file_cals calls on a fixed dependency graph with   *)
(* a fixed lookup_fn: a target "sci1" whose flat "flat1" and bias "bias1"  *)
(* are found, the flat having a bias of its own.                           *)
(***************************************************************************)
\* "sci1", "flat1", "bias1"
File_sci1 == <<115, 99, 105, 49>>
File_flat1 == <<102, 108, 97, 116, 49>>
File_bias1 == <<98, 105, 97, 115, 49>>
ScenarioFiles == {File_sci1, File_flat1, File_bias1}

\* "target", "flat", "bias"
Type_target == <<116, 97, 114, 103, 101, 116>>
Type_flat == <<102, 108, 97, 116>>
Type_bias == <<98, 105, 97, 115>>
ScenarioTypes == {Type_target, Type_flat, Type_bias}

\* "cksA"
Cks_A == <<99, 107, 115, 65>>

ScenarioPairs == ScenarioFiles \X ScenarioTypes

\* {'target': ['flat', 'bias'], 'flat': ['bias'], 'bias': []}
Deps_scenario ==
    (Type_target :> <<Type_flat, Type_bias>>) @@
    (Type_flat :> <<Type_bias>>) @@
    (Type_bias :> << >>)

\* the lookup_fn of the session: a flat for sci1, a bias for sci1 and for
\* flat1, and no match for anything else
lookup_fn(filename, cal_type) ==
    IF filename = File_sci1 /\ cal_type = Type_flat
    THEN <<<<File_flat1, Cks_A>>>>
    ELSE IF filename \in {File_sci1, File_flat1} /\ cal_type = Type_bias
    THEN <<<<File_bias1, None>>>>
    ELSE << >>

\* matches = lookup_fn(filename, cal_type), recorded by add_cal_entry
LookupScenario ==
    /\ AtLookup
    /\ Lookup(lookup_fn(Top.filename, CalTypeOf(Top)))

InitScenario ==
    /\ cal_dict = init_cal_dict
    /\ dependencies = Deps_scenario
    /\ stack = << >>
    /\ hist = << >>
    /\ store0 = init_cal_dict
    /\ last_add = NoAdd
    /\ n_lookups = [p \in ScenarioPairs |-> 0]
    /\ n_valid = [p \in ScenarioPairs |-> 0]
    /\ call_lookups = 0
    /\ disk = NoDisk
    /\ hdulist = << >>

NextScenario ==
    \/ \E f \in ScenarioFiles, o \in ScenarioTypes :
          Call_recurse_file_cals(f, o)
    \/ EnterLoop
    \/ LookupScenario
    \/ SkipLookup
    \/ Descend
    \/ NextCalType
    \/ Return

SpecScenario == InitScenario /\ [][NextScenario]_vars

(***************************************************************************)
(* extract_cal_entries(cal_dict, cal_type, reference=None).  The reference *)
(* argument is None, one file name or a tuple of file names, held as a     *)
(* pair <<kind, value>>.                                                   *)
(***************************************************************************)
Ref_None == <<"None", << >>>>

Ref_str(filename) == <<"str", filename>>

Ref_tuple(filenames) == <<"tuple", filenames>>

RefKind(reference) == reference[1]

RefVal(reference) == reference[2]

\* the tuples of names tried as reference: of one name and of two
RefTuples == {<<File_c>>, <<File_ax, File_c>>}

\* "if isinstance(reference, basestring): reference = (reference,)"
AsTuple(reference) ==
    IF RefKind(reference) = "str" THEN Ref_tuple(<<RefVal(reference)>>)
    ELSE reference

\* "reference is None or refkey in reference"
RefSelects(reference, refkey) ==
    IF RefKind(reference) = "None" THEN TRUE
    ELSE \E i \in DOMAIN RefVal(reference) : RefVal(reference)[i] = refkey

\* the set comprehension without its "if typekey == cal_type"
CalKeys_alltypes(associations, cal_type, reference) ==
    UNION {{associations[refkey][typekey] :
                typekey \in DOMAIN associations[refkey]} :
           refkey \in {f \in DOMAIN associations : RefSelects(reference, f)}}

\* keys: the names associated for cal_type with the selected files
CalKeys(associations, cal_type, reference) ==
    UNION {{associations[refkey][typekey] :
                typekey \in {t \in DOMAIN associations[refkey] :
                                t = cal_type}} :
           refkey \in {f \in DOMAIN associations : RefSelects(reference, f)}}

\* what extract_cal_entries gives: the returned dict, or the KeyError of a key
\* that calibrations does not have
extract_cal_entries(cd, cal_type, reference) ==
    LET keys == CalKeys(cd.associations, cal_type, AsTuple(reference))
    IN  IF \E key \in keys : key \notin DOMAIN cd.calibrations
        THEN [raised |-> TRUE, value |-> None]
        ELSE [raised |-> FALSE,
              value |-> IF keys = {} THEN EmptyDict
                        ELSE [key \in keys |-> cd.calibrations[key]]]

\* the selected entries popped from calibrations rather than read
Call_extract_cal_entries_pop(cal_type, reference) ==
    /\ CanCall
    /\ LET res == extract_cal_entries(cal_dict, cal_type, reference)
       IN  /\ BeginCall("extract_cal_entries", reference, cal_type, << >>,
                        res.value, {},
                        IF res.raised THEN "KeyError" ELSE "returned")
           /\ cal_dict' =
                 IF res.raised THEN cal_dict
                 ELSE [cal_dict EXCEPT !.calibrations =
                          [key \in DOMAIN @ \ DOMAIN res.value |-> @[key]]]
    /\ UNCHANGED <<disk, hdulist, dependencies, stack, last_add, n_lookups,
                   n_valid>>

\* the caller invokes extract_cal_entries(cal_dict, cal_type, reference)
Call_extract_cal_entries(cal_type, reference) ==
    /\ CanCall
    /\ LET res == extract_cal_entries(cal_dict, cal_type, reference)
       IN  BeginCall("extract_cal_entries", reference, cal_type, << >>,
                     res.value, {},
                     IF res.raised THEN "KeyError" ELSE "returned")
    /\ UNCHANGED <<disk, hdulist, cal_dict, dependencies, stack, last_add,
                   n_lookups, n_valid>>

NextExtract ==
    \/ Next
    \/ \E t \in ObsTypes : Call_extract_cal_entries(t, Ref_None)
    \/ \E t \in ObsTypes, f \in Files :
          Call_extract_cal_entries(t, Ref_str(f))
    \/ \E t \in ObsTypes, s \in RefTuples :
          Call_extract_cal_entries(t, Ref_tuple(s))

SpecExtract == Init /\ [][NextExtract]_vars

(***************************************************************************)
(* init_cal_dict(filename) for a file that exists and parses.  What        *)
(* json.loads returns is a tree of values <<type, keys, items>>: the       *)
(* Python type ("dict", "list", or "str" for anything that is neither),    *)
(* the keys of a dict, and the values of a dict (in the order of its keys) *)
(* or the items of a list.  In this session cal_dict holds such a tree.    *)
(***************************************************************************)
K_ASSOCIATIONS == "associations"
K_CALIBRATIONS == "calibrations"
K_CHECKSUMS == "checksums"

JStr == <<"str", << >>, << >>>>

JList(items) == <<"list", << >>, items>>

JDict(keys, values) == <<"dict", keys, values>>

JType(val) == val[1]

JKeys(val) == val[2]

JItems(val) == val[3]

\* d[key] for a dict d that has the key
JGet(d, key) == JItems(d)[CHOOSE i \in DOMAIN JKeys(d) : JKeys(d)[i] = key]

\* isinstance(val, dict), isinstance(val, list)
IsDict(val) == JType(val) = "dict"

IsList(val) == JType(val) = "list"

\* all([test(val) for val in d.itervalues()])
AllDicts(d) == \A i \in DOMAIN JItems(d) : IsDict(JItems(d)[i])

AllLists(d) == \A i \in DOMAIN JItems(d) : IsList(JItems(d)[i])

\* sorted(cal_dict.iterkeys()) == sorted([K_ASSOCIATIONS, K_CALIBRATIONS,
\* K_CHECKSUMS]), for the distinct keys of a dict
HasTheKeys(d) ==
    /\ Len(JKeys(d)) = 3
    /\ {JKeys(d)[i] : i \in DOMAIN JKeys(d)} =
          {K_ASSOCIATIONS, K_CALIBRATIONS, K_CHECKSUMS}

\* the test with the check of the values of calibrations left out
ValidFormat_nolists(parsed) ==
    IF ~IsDict(parsed) THEN FALSE
    ELSE IF ~HasTheKeys(parsed) THEN FALSE
    ELSE IF ~AllDicts(parsed) THEN FALSE
    ELSE AllDicts(JGet(parsed, K_ASSOCIATIONS))

\* the test that sets "valid", its "and" evaluated left to right
ValidFormat(parsed) ==
    IF ~IsDict(parsed) THEN FALSE
    ELSE IF ~HasTheKeys(parsed) THEN FALSE
    ELSE IF ~AllDicts(parsed) THEN FALSE
    ELSE IF ~AllDicts(JGet(parsed, K_ASSOCIATIONS)) THEN FALSE
    ELSE AllLists(JGet(parsed, K_CALIBRATIONS))

\* {K_ASSOCIATIONS: {}, K_CALIBRATIONS: {}, K_CHECKSUMS: {}}
JEmptyCalDict ==
    JDict(<<K_ASSOCIATIONS, K_CALIBRATIONS, K_CHECKSUMS>>,
          <<JDict(<< >>, << >>), JDict(<< >>, << >>), JDict(<< >>, << >>)>>)

\* a calibration dictionary with the three sub-dicts given
JCalDict(associations, calibrations, checksums) ==
    JDict(<<K_ASSOCIATIONS, K_CALIBRATIONS, K_CHECKSUMS>>,
          <<associations, calibrations, checksums>>)

\* {"a.x": {"f": "c_f"}}, {"c_f": ["c"]}, {"c": "p"}
JAssoc == JDict(<<"a.x">>, <<JDict(<<"f">>, <<JStr>>)>>)
JCals == JDict(<<"c_f">>, <<JList(<<JStr>>)>>)
JCks == JDict(<<"c">>, <<JStr>>)

\* sub-dicts with one value of the wrong type, alone or after a good one
JAssocBad ==
    {JDict(<<"a.x">>, <<JStr>>), JDict(<<"a.x">>, <<JList(<< >>)>>),
     JDict(<<"a.x", "c">>, <<JDict(<< >>, << >>), JStr>>)}

JCalsBad ==
    {JDict(<<"c_f">>, <<JStr>>), JDict(<<"c_f">>, <<JDict(<< >>, << >>)>>),
     JDict(<<"c_f", "c_b">>, <<JList(<<JStr>>), JStr>>)}

\* parsed files that hold a calibration dictionary, some with values that the
\* test does not look at (a list as a checksum, a list as an association)
GoodFiles ==
    {JEmptyCalDict,
     JCalDict(JAssoc, JCals, JCks),
     JDict(<<K_CHECKSUMS, K_ASSOCIATIONS, K_CALIBRATIONS>>,
           <<JCks, JAssoc, JCals>>),
     JCalDict(JDict(<<"a.x">>, <<JDict(<< >>, << >>)>>),
              JDict(<<"c_f">>, <<JList(<< >>)>>), JDict(<< >>, << >>)),
     JCalDict(JAssoc, JCals, JDict(<<"c">>, <<JList(<< >>)>>)),
     JCalDict(JDict(<<"a.x">>, <<JDict(<<"f">>, <<JList(<< >>)>>)>>),
              JCals, JCks)}

\* parsed files that do not
BadFiles ==
    {JStr, JList(<< >>), JList(<<JAssoc, JCals, JCks>>),
     JDict(<< >>, << >>),
     JDict(<<K_ASSOCIATIONS, K_CALIBRATIONS>>, <<JAssoc, JCals>>),
     JDict(<<K_ASSOCIATIONS, K_CALIBRATIONS, K_CHECKSUMS, "notes">>,
           <<JAssoc, JCals, JCks, JDict(<< >>, << >>)>>),
     JDict(<<K_ASSOCIATIONS, K_CALIBRATIONS, "checksum">>,
           <<JAssoc, JCals, JCks>>),
     JCalDict(JList(<< >>), JCals, JCks),
     JCalDict(JAssoc, JList(<< >>), JCks),
     JCalDict(JAssoc, JCals, JStr),
     JCalDict(JAssoc, JCals, JList(<< >>))}
    \cup {JCalDict(a, JCals, JCks) : a \in JAssocBad}
    \cup {JCalDict(JAssoc, c, JCks) : c \in JCalsBad}
    \cup {JCalDict(a, c, JCks) : <<a, c>> \in JAssocBad \X JCalsBad}

ParsedFiles == GoodFiles \cup BadFiles

\* the name of the file, and the filename that is None or empty
CalFile == "cals.json"
NoFile == ""

\* cal_dict = init_cal_dict(filename): the file's content fails the test
Call_init_cal_dict_invalid(parsed) ==
    /\ CanCall
    /\ ~ValidFormat(parsed)
    /\ BeginCall("init_cal_dict", CalFile, None, parsed, JStr, {},
                 "ValueError")
    /\ UNCHANGED <<disk, hdulist, cal_dict, dependencies, stack, last_add,
                   n_lookups, n_valid>>

\* cal_dict = init_cal_dict(filename): the file's content passes the test
Call_init_cal_dict(parsed) ==
    /\ CanCall
    /\ ValidFormat(parsed)
    /\ BeginCall("init_cal_dict", CalFile, None, parsed, parsed, {},
                 "returned")
    /\ cal_dict' = parsed
    /\ UNCHANGED <<disk, hdulist, dependencies, stack, last_add, n_lookups,
                   n_valid>>

\* cal_dict = init_cal_dict(): no file, the empty dictionary
Call_init_cal_dict_nofile ==
    /\ CanCall
    /\ BeginCall("init_cal_dict", NoFile, None, JStr, JEmptyCalDict, {},
                 "returned")
    /\ cal_dict' = JEmptyCalDict
    /\ UNCHANGED <<disk, hdulist, dependencies, stack, last_add, n_lookups,
                   n_valid>>

InitLoad ==
    /\ cal_dict = JEmptyCalDict
    /\ dependencies = Deps_chain
    /\ stack = << >>
    /\ hist = << >>
    /\ store0 = JEmptyCalDict
    /\ last_add = NoAdd
    /\ n_lookups = [p \in Pairs |-> 0]
    /\ n_valid = [p \in Pairs |-> 0]
    /\ call_lookups = 0
    /\ disk = NoDisk
    /\ hdulist = << >>

NextLoad ==
    \/ \E parsed \in ParsedFiles : Call_init_cal_dict(parsed)
    \/ \E parsed \in ParsedFiles : Call_init_cal_dict_invalid(parsed)
    \/ Call_init_cal_dict_nofile

SpecLoad == InitLoad /\ [][NextLoad]_vars

(***************************************************************************)
(* save_cal_dict and init_cal_dict on a calibration dictionary held in     *)
(* memory.  json.dumps(cal_dict, sort_keys=True, indent=4) gives the text  *)
(* of a tree <<type, keys, items>> whose dict keys are in the order they   *)
(* are written; json.loads gives the Python value of such a tree.          *)
(***************************************************************************)
\* null, and a string with its characters
JNull == <<"null", << >>, << >>>>

JText(s) == <<"str", << >>, s>>

\* the keys of a set in ascending order
RECURSIVE KeysAscending(_)
KeysAscending(S) ==
    IF S = {} THEN << >>
    ELSE LET k == CHOOSE x \in S : \A y \in S \ {x} : StrLess(x, y)
         IN  <<k>> \o KeysAscending(S \ {k})

Reverse(s) == [i \in DOMAIN s |-> s[Len(s) + 1 - i]]

\* the order in which a dict yields its keys: arbitrary in Python 2, here
\* one of two orders
IterOrders == {"up", "down"}

IterKeys(d, iter) ==
    IF iter = "up" THEN KeysAscending(DOMAIN d)
    ELSE Reverse(KeysAscending(DOMAIN d))

\* insert key k into the sorted list s
RECURSIVE InsertKey(_, _)
InsertKey(s, k) ==
    IF s = << >> THEN <<k>>
    ELSE IF StrLess(k, s[1]) THEN <<k>> \o s
    ELSE <<s[1]>> \o InsertKey(Tail(s), k)

\* sorted(keys)
RECURSIVE sorted_keys(_)
sorted_keys(keys) ==
    IF keys = << >> THEN << >>
    ELSE InsertKey(sorted_keys(SubSeq(keys, 1, Len(keys) - 1)),
                   keys[Len(keys)])

\* sort_keys left out: the keys are written as the dict yields them
DumpKeys_unsorted(d, iter) == IterKeys(d, iter)

\* the keys of a dict in the order json.dumps writes them with sort_keys=True
DumpKeys(d, iter) == sorted_keys(IterKeys(d, iter))

\* None written as the string 'None'
DumpScalar_str(v) == IF v = None THEN JText(<<78, 111, 110, 101>>) ELSE JText(v)

\* a label, file name or checksum: None is written as null
DumpScalar(v) == IF v = None THEN JNull ELSE JText(v)

\* a list of file names
DumpList(l) == JList([i \in DOMAIN l |-> DumpScalar(l[i])])

\* a dict of labels or checksums
DumpDict(d, iter) ==
    LET keys == DumpKeys(d, iter)
    IN  JDict(keys, [i \in DOMAIN keys |-> DumpScalar(d[keys[i]])])

\* calibrations: a dict of lists
DumpDictOfLists(d, iter) ==
    LET keys == DumpKeys(d, iter)
    IN  JDict(keys, [i \in DOMAIN keys |-> DumpList(d[keys[i]])])

\* associations: a dict of dicts
DumpDictOfDicts(d, iter) ==
    LET keys == DumpKeys(d, iter)
    IN  JDict(keys, [i \in DOMAIN keys |-> DumpDict(d[keys[i]], iter)])

\* jstr = json.dumps(cal_dict, sort_keys=True, indent=4)
json_dumps(cd, iter) ==
    JCalDict(DumpDictOfDicts(cd.associations, iter),
             DumpDictOfLists(cd.calibrations, iter),
             DumpDict(cd.checksums, iter))

\* json.loads(jstr), below the top level
RECURSIVE json_loads(_)
json_loads(val) ==
    IF JType(val) = "dict"
    THEN [key \in {JKeys(val)[i] : i \in DOMAIN JKeys(val)} |->
             json_loads(JGet(val, key))]
    ELSE IF JType(val) = "list"
    THEN [i \in DOMAIN JItems(val) |-> json_loads(JItems(val)[i])]
    ELSE IF JType(val) = "null" THEN None
    ELSE JItems(val)

\* the dictionary json.loads gives for a text that passes the format test
LoadCalDict(parsed) ==
    [associations |-> json_loads(JGet(parsed, K_ASSOCIATIONS)),
     calibrations |-> json_loads(JGet(parsed, K_CALIBRATIONS)),
     checksums |-> json_loads(JGet(parsed, K_CHECKSUMS))]

(***************************************************************************)
(* A session with the cache file: calls that change the dictionary, then   *)
(* save_cal_dict and init_cal_dict calls.  save_cal_dict runs in two       *)
(* steps, open(filename, 'w') and fobj.write(jstr), either of which may    *)
(* fail; the text it writes is kept in its hist entry (label).  The file   *)
(* is absent, empty, a partial text, or a whole text.                      *)
(***************************************************************************)
MaxFileCalls == 2

CanFileCall == Idle /\ Len(hist) < MaxCalls + MaxFileCalls

EmptyFile == <<"empty", JStr>>

PartialFile(jstr) == <<"partial", jstr>>

WholeFile(jstr) == <<"text", jstr>>

FileState(file) == file[1]

FileText(file) == file[2]

\* json.loads raises ValueError on an empty or cut-off text
Unparsable(file) == FileState(file) \in {"empty", "partial"}

\* hand-written cache files: one whose association names a label that
\* calibrations does not have, one whose label was filled in with its
\* calibrations entry, one with a string where a list belongs
Edited_dangling ==
    JCalDict(JDict(<<File_ax>>,
                   <<JDict(<<Type_f>>, <<JText(<<99, 95, 102>>)>>)>>),
             JDict(<< >>, << >>), JDict(<< >>, << >>))

Edited_filled ==
    JCalDict(JDict(<<File_ax>>,
                   <<JDict(<<Type_b, Type_f>>,
                           <<JNull, JText(<<99, 95, 102>>)>>)>>),
             JDict(<<<<99, 95, 102>>>>, <<JList(<<JText(File_c)>>)>>),
             JDict(<< >>, << >>))

Edited_badformat ==
    JCalDict(JDict(<< >>, << >>),
             JDict(<<<<99, 95, 102>>>>, <<JText(File_c)>>),
             JDict(<< >>, << >>))

EditedFiles == {Edited_dangling, Edited_filled, Edited_badformat}

\* the user writes the cache file by hand before the session
EditFile(jstr) ==
    /\ hist = << >>
    /\ disk = NoDisk
    /\ disk' = WholeFile(jstr)
    /\ UNCHANGED <<cal_dict, dependencies, stack, hist, store0, last_add,
                   n_lookups, n_valid, call_lookups, hdulist>>

\* the frame of a save_cal_dict call
SaveFrame ==
    [filename |-> None, obs_type |-> None, pc |-> "open", k |-> 1, j |-> 1]

\* the caller invokes save_cal_dict(cal_dict, filename): json.dumps; the
\* call's record keeps the file as it was and the text to be written
Call_save_cal_dict(iter) ==
    /\ CanFileCall
    /\ BeginCall("save_cal_dict", CalFile, None, disk,
                 json_dumps(cal_dict, iter), {}, "running")
    /\ stack' = <<SaveFrame>>
    /\ UNCHANGED <<disk, hdulist, cal_dict, dependencies, last_add, n_lookups,
                   n_valid>>

\* open(filename, 'w'): the file is created or cut to nothing
OpenFile ==
    /\ ~Idle
    /\ Top.pc = "open"
    /\ disk' = EmptyFile
    /\ stack' = SetTop([Top EXCEPT !.pc = "write"])
    /\ UNCHANGED <<cal_dict, dependencies, hist, store0, last_add, n_lookups,
                   n_valid, call_lookups, hdulist>>

\* open fails (no permission, no directory): IOError
OpenFails ==
    /\ ~Idle
    /\ Top.pc = "open"
    /\ Raise("IOError")
    /\ UNCHANGED <<disk, hdulist, cal_dict, dependencies, store0, last_add,
                   n_lookups, n_valid, call_lookups>>

\* fobj.write(jstr) and the close at the end of the with block
WriteFile ==
    /\ ~Idle
    /\ Top.pc = "write"
    /\ disk' = WholeFile(Cur.label)
    /\ stack' = << >>
    /\ hist' = [hist EXCEPT ![Len(hist)].outcome = "returned"]
    /\ UNCHANGED <<cal_dict, dependencies, store0, last_add, n_lookups,
                   n_valid, call_lookups, hdulist>>

\* the write or the close fails (disk full): IOError, with nothing or only
\* part of the text in the file
WriteFails ==
    /\ ~Idle
    /\ Top.pc = "write"
    /\ disk' \in {EmptyFile, PartialFile(Cur.label)}
    /\ Raise("IOError")
    /\ UNCHANGED <<cal_dict, dependencies, store0, last_add, n_lookups,
                   n_valid, call_lookups, hdulist>>

\* the names a caller may give init_cal_dict: none, or the cache file's
FileNames == {NoFile, CalFile}

\* init_cal_dict with no name, or the name of a file that does not exist,
\* raising as if the file were expected to be there
Load_new_raises(filename) ==
    /\ CanFileCall
    /\ filename = NoFile \/ FileState(disk) = "absent"
    /\ BeginCall("init_cal_dict", filename, None, disk, None, {}, "IOError")
    /\ UNCHANGED <<disk, hdulist, cal_dict, dependencies, stack, last_add,
                   n_lookups, n_valid>>

\* init_cal_dict with no name, or the name of a file that does not exist:
\* a new, empty dictionary
Load_new(filename) ==
    /\ CanFileCall
    /\ filename = NoFile \/ FileState(disk) = "absent"
    /\ BeginCall("init_cal_dict", filename, None, disk, None, {}, "returned")
    /\ cal_dict' = init_cal_dict
    /\ UNCHANGED <<disk, hdulist, dependencies, stack, last_add, n_lookups,
                   n_valid>>

\* init_cal_dict(filename): json.loads raises ValueError
Load_unparsable ==
    /\ CanFileCall
    /\ Unparsable(disk)
    /\ BeginCall("init_cal_dict", CalFile, None, disk, None, {}, "ValueError")
    /\ UNCHANGED <<disk, hdulist, cal_dict, dependencies, stack, last_add,
                   n_lookups, n_valid>>

\* init_cal_dict(filename): the text parses and fails the format test
Load_invalid ==
    /\ CanFileCall
    /\ FileState(disk) = "text"
    /\ ~ValidFormat(FileText(disk))
    /\ BeginCall("init_cal_dict", CalFile, None, disk, None, {}, "ValueError")
    /\ UNCHANGED <<disk, hdulist, cal_dict, dependencies, stack, last_add,
                   n_lookups, n_valid>>

\* init_cal_dict(filename): the text parses, passes the format test and is
\* returned
Load_valid ==
    /\ CanFileCall
    /\ FileState(disk) = "text"
    /\ ValidFormat(FileText(disk))
    /\ BeginCall("init_cal_dict", CalFile, None, disk, None, {}, "returned")
    /\ cal_dict' = LoadCalDict(FileText(disk))
    /\ UNCHANGED <<disk, hdulist, dependencies, stack, last_add, n_lookups,
                   n_valid>>

InitFile == Init /\ dependencies = Deps_chain

NextFile ==
    \/ \E f \in Files, t \in CalTypes, m \in LookupResults :
          Call_add_cal_entry(f, t, m)
    \/ \E f \in Files, o \in ObsTypes : Call_recurse_file_cals(f, o)
    \/ EnterLoop
    \/ \E m \in LookupResults : Lookup(m)
    \/ SkipLookup
    \/ Descend
    \/ LabelKeyError
    \/ NextCalType
    \/ Return
    \/ \E jstr \in EditedFiles : EditFile(jstr)
    \/ \E iter \in IterOrders : Call_save_cal_dict(iter)
    \/ OpenFile
    \/ OpenFails
    \/ WriteFile
    \/ WriteFails
    \/ \E filename \in FileNames : Load_new(filename)
    \/ Load_unparsable
    \/ Load_invalid
    \/ Load_valid

SpecFile == InitFile /\ [][NextFile]_vars

(***************************************************************************)
(* Properties.                                                             *)
(***************************************************************************)
Raised == {"ValueError", "KeyError", "LookupError", "RuntimeError"}

\* associations[filename] has the key cal_type
HasAssociation(cd, filename, cal_type) ==
    /\ filename \in DOMAIN cd.associations
    /\ cal_type \in DOMAIN cd.associations[filename]

\* every association that is not None names a key of calibrations
RefInv(cd) ==
    \A f \in DOMAIN cd.associations :
        \A t \in DOMAIN cd.associations[f] :
            cd.associations[f][t] # None
                => cd.associations[f][t] \in DOMAIN cd.calibrations

\* C1: from the empty dictionary, after any sequence of add_cal_entry and
\* recurse_file_cals calls, returned or raised, every association that is not
\* the None placeholder is a key of calibrations.
C1_Referential == RefInv(cal_dict)

\* a call has raised while a label is associated
C1_Witness ==
    /\ Outcome \in Raised
    /\ \E f \in DOMAIN cal_dict.associations :
          \E t \in DOMAIN cal_dict.associations[f] :
              cal_dict.associations[f][t] # None

\* the latest call repeats the recurse_file_cals call before it, which returned
SecondPass ==
    /\ Len(hist) >= 2
    /\ Cur.op = "recurse_file_cals"
    /\ hist[Len(hist) - 1].op = "recurse_file_cals"
    /\ hist[Len(hist) - 1].outcome = "returned"
    /\ hist[Len(hist) - 1].filename = Cur.filename
    /\ hist[Len(hist) - 1].type = Cur.type

\* C2: a recurse_file_cals call that repeats one that returned normally invokes
\* lookup_fn zero times and leaves the dictionary as the first pass left it.
C2_Idempotent == SecondPass => (call_lookups = 0 /\ cal_dict = store0)

\* the second pass has returned over a dictionary the first pass filled
C2_Witness ==
    /\ SecondPass
    /\ Outcome = "returned"
    /\ cal_dict.calibrations # EmptyDict

\* C3: on a dependency graph with a cycle, recurse_file_cals terminates: its
\* recursion never runs away (it never exhausts the call stack).
C3_CyclicTerminates ==
    dependencies = Deps_cyclic => Outcome # "RuntimeError"

\* the file names of a match list, as a set
NameSet(matches) == {matches[i][1] : i \in DOMAIN matches}

\* the match list names no file twice
DistinctNames(matches) == Cardinality(NameSet(matches)) = Len(matches)

\* hist[i] is a direct add_cal_entry call that returned
IsAdd(i) == hist[i].op = "add_cal_entry" /\ hist[i].outcome = "returned"

\* C4: two add_cal_entry calls with the same cal_type whose matches name the
\* same set of distinct files, in any order and for any requesting files, are
\* given the same label, and the second adds no key to calibrations.
C4_LabelConvergence ==
    \A i, j \in DOMAIN hist :
        (/\ i < j
         /\ IsAdd(i) /\ IsAdd(j)
         /\ hist[i].type = hist[j].type
         /\ DistinctNames(hist[i].matches) /\ DistinctNames(hist[j].matches)
         /\ NameSet(hist[i].matches) = NameSet(hist[j].matches))
        => (hist[j].label = hist[i].label /\ hist[j].new_keys = {})

\* the same two files given in two orders, for two requesting files, with
\* another call in between
C4_Witness ==
    \E i, j \in DOMAIN hist :
        /\ i + 1 < j
        /\ IsAdd(i + 1)
        /\ hist[i + 1].new_keys # {}
        /\ IsAdd(i) /\ IsAdd(j)
        /\ hist[i].type = hist[j].type
        /\ hist[i].filename # hist[j].filename
        /\ DistinctNames(hist[i].matches) /\ DistinctNames(hist[j].matches)
        /\ NameSet(hist[i].matches) = Files
        /\ NameSet(hist[j].matches) = Files
        /\ MatchNames(hist[i].matches) # MatchNames(hist[j].matches)

\* the sorted file names of the latest add_cal_entry invocation
AddNames == MatchNames(sorted(last_add.matches))

\* the first label the latest add_cal_entry invocation tries
AddCandidate ==
    LET ref == splitext(AddNames[1])
    IN  addext(ref[1] \o <<95>> \o last_add.cal_type, ref[2])

\* the latest add_cal_entry invocation found its first label occupied by a
\* different list
AddCollided ==
    /\ last_add.done
    /\ ~last_add.raised
    /\ last_add.matches # << >>
    /\ AddCandidate \in DOMAIN last_add.before.calibrations
    /\ last_add.before.calibrations[AddCandidate] # AddNames

\* C5: when add_cal_entry is given matches whose sorted names differ from the
\* list stored at the candidate label, it assigns another label and leaves that
\* entry with its list.
C5_CollisionSafety ==
    AddCollided =>
        /\ AssocOf(cal_dict, last_add.filename, last_add.cal_type)
              # AddCandidate
        /\ cal_dict.calibrations[AddCandidate]
              = last_add.before.calibrations[AddCandidate]

\* a direct call collided
C5_Witness == AddCollided /\ Idle

\* C6: once a label is a key of calibrations, its list is the same after every
\* later step of add_cal_entry or recurse_file_cals.
C6_GroupsImmutable ==
    [][\A L \in DOMAIN cal_dict.calibrations :
          /\ L \in DOMAIN cal_dict'.calibrations
          /\ cal_dict'.calibrations[L] = cal_dict.calibrations[L]]_vars

\* a look-up inside recurse_file_cals collided with an existing group
C6_Witness == AddCollided /\ ~Idle

\* C7: no step changes a checksum that is set, and a checksum is added only
\* for a match that carries one and whose file had none.
C7_ChecksumMonotone ==
    [][/\ \A g \in DOMAIN cal_dict.checksums :
             /\ g \in DOMAIN cal_dict'.checksums
             /\ cal_dict'.checksums[g] = cal_dict.checksums[g]
       /\ \A g \in DOMAIN cal_dict'.checksums \ DOMAIN cal_dict.checksums :
             \E i \in DOMAIN last_add'.matches :
                 /\ last_add'.matches[i][1] = g
                 /\ Truthy(last_add'.matches[i][2])
                 /\ cal_dict'.checksums[g] = last_add'.matches[i][2]]_vars

\* matches carried a checksum other than the one already recorded
C7_Witness ==
    /\ last_add.done
    /\ ~last_add.raised
    /\ \E i \in DOMAIN last_add.matches :
          /\ Truthy(last_add.matches[i][2])
          /\ last_add.matches[i][1] \in DOMAIN last_add.before.checksums
          /\ last_add.before.checksums[last_add.matches[i][1]]
                # last_add.matches[i][2]

\* C8: recurse_file_cals never invokes lookup_fn(file, cal_type) while
\* associations[file] has the key cal_type, the None placeholder included.
C8_ResolverGuard ==
    [][\A p \in Pairs :
          n_lookups'[p] > n_lookups[p]
              => ~HasAssociation(cal_dict, p[1], p[2])]_vars

\* a pair whose association is the None placeholder was passed without look-up
C8_Witness ==
    /\ ~Idle
    /\ Top.pc = "recurse"
    /\ call_lookups = 0
    /\ DepLabel(Top) = None

\* C9: over any sequence of calls on one dictionary, lookup_fn returns a valid
\* match list at most once for each (file, cal_type) pair.
C9_OneLookupPerPair == \A p \in Pairs : n_valid[p] <= 1

\* a later recurse_file_cals call revisits a pair looked up by an earlier one
C9_Witness ==
    /\ Len(hist) >= 2
    /\ ~Idle
    /\ Top.pc = "recurse"
    /\ call_lookups = 0
    /\ n_valid[<<Top.filename, CalTypeOf(Top)>>] = 1
    /\ Truthy(DepLabel(Top))

\* the innermost frame is entering an observation type without an entry
AtMissingEntry ==
    /\ ~Idle
    /\ Top.pc = "enter"
    /\ Len(stack) <= RecursionLimit
    /\ Top.obs_type \notin DOMAIN dependencies

\* C10 (as claimed): an observation type without an entry in the graph is
\* treated as having no dependencies and raises no error.
C10_MissingEntryNoError ==
    dependencies = Deps_missing => Outcome # "KeyError"

\* C10 (amended): entering an observation type without an entry in the graph
\* raises KeyError, with no look-up made and the dictionary left as it is.
C10_MissingEntryRaises ==
    [][AtMissingEntry =>
          /\ Outcome' = "KeyError"
          /\ stack' = << >>
          /\ cal_dict' = cal_dict
          /\ n_lookups' = n_lookups]_vars

\* the recursion into a found calibration's type raised KeyError
C10_Witness ==
    /\ Outcome = "KeyError"
    /\ call_lookups >= 1
    /\ cal_dict.calibrations # EmptyDict

\* this step is a lookup_fn invocation that raised
LookupFailed == Outcome = "running" /\ Outcome' = "LookupError"

\* C11: when lookup_fn raises for a pair, recurse_file_cals ends with that
\* error at once: the dictionary is exactly as it was before the failure, the
\* pair has no key (no None placeholder), and the only look-up counted is the
\* failed one, so that the pair is looked up again by a later call.
C11_LookupFailure ==
    [][LookupFailed =>
          /\ stack' = << >>
          /\ cal_dict' = cal_dict
          /\ call_lookups' = call_lookups + 1
          /\ \E p \in Pairs :
                /\ n_lookups' = [n_lookups EXCEPT ![p] = @ + 1]
                /\ ~HasAssociation(cal_dict', p[1], p[2])]_vars

\* a call failed after recording entries, and the next call looked the failed
\* pair up again
C11_Witness ==
    /\ Len(hist) = 2
    /\ hist[1].outcome = "LookupError"
    /\ store0.calibrations # EmptyDict
    /\ \E p \in Pairs :
          /\ n_lookups[p] = 2
          /\ n_valid[p] = 1
          /\ ~HasAssociation(store0, p[1], p[2])

RECURSIVE Closed(_, _, _)
\* every calibration type that obs_type depends on has a key for filename, and
\* so on for every file of every group so associated (to depth n)
Closed(filename, obs_type, n) ==
    /\ n > 0
    /\ DepsEntry(dependencies, obs_type).found
    /\ \A k \in DOMAIN DepsEntry(dependencies, obs_type).list :
          LET t == DepsEntry(dependencies, obs_type).list[k]
          IN  /\ HasAssociation(cal_dict, filename, t)
              /\ LET L == AssocOf(cal_dict, filename, t)
                 IN  L # None =>
                        /\ L \in DOMAIN cal_dict.calibrations
                        /\ \A i \in DOMAIN cal_dict.calibrations[L] :
                              Closed(cal_dict.calibrations[L][i], t, n - 1)

\* a recurse_file_cals call that began with an empty dictionary has returned
ReturnedFromEmpty ==
    /\ hist # << >>
    /\ Cur.op = "recurse_file_cals"
    /\ Outcome = "returned"
    /\ store0 = init_cal_dict

\* C12: after recurse_file_cals(filename, obs_type, ...) returns on a
\* dictionary that started empty, filename has an association for every type
\* obs_type depends on, and the same holds recursively for every file of every
\* group so associated, with the association's type as its observation type.
C12_TransitiveClosure ==
    ReturnedFromEmpty => Closed(Cur.filename, Cur.type, RecursionLimit)

\* the call returned after recursing into a group of two files, and a file
\* of the group other than the starting one got an association of its own
C12_Witness ==
    /\ ReturnedFromEmpty
    /\ \E L \in DOMAIN cal_dict.calibrations :
          /\ Len(cal_dict.calibrations[L]) = 2
          /\ \E i \in {1, 2} :
                LET g == cal_dict.calibrations[L][i]
                IN  /\ g # Cur.filename
                    /\ g \in DOMAIN cal_dict.associations
                    /\ cal_dict.associations[g] # EmptyDict

\* recurse_file_cals('sci1', 'target', ...) on an empty dictionary has returned
ScenarioDone ==
    /\ ReturnedFromEmpty
    /\ Cur.filename = File_sci1
    /\ Cur.type = Type_target

\* 'flat1_flat' and 'bias1_bias'
Label_flat1_flat == <<102, 108, 97, 116, 49, 95, 102, 108, 97, 116>>
Label_bias1_bias == <<98, 105, 97, 115, 49, 95, 98, 105, 97, 115>>

\* C13: on the graph {'target': ['flat', 'bias'], 'flat': ['bias'],
\* 'bias': []} with lookup_fn giving flat1 for (sci1, flat) and bias1 for
\* (flat1, bias) and (sci1, bias), recurse_file_cals('sci1', 'target') on an
\* empty dictionary ends with associations['sci1'] == {'flat': 'flat1_flat',
\* 'bias': 'bias1_bias'}, associations['flat1'] == {'bias': 'bias1_bias'},
\* calibrations['bias1_bias'] == ['bias1'], and lookup_fn invoked exactly once
\* for each of the three pairs.
C13_Scenario ==
    ScenarioDone =>
        /\ File_sci1 \in DOMAIN cal_dict.associations
        /\ cal_dict.associations[File_sci1] =
              (Type_flat :> Label_flat1_flat) @@ (Type_bias :> Label_bias1_bias)
        /\ File_flat1 \in DOMAIN cal_dict.associations
        /\ cal_dict.associations[File_flat1] = (Type_bias :> Label_bias1_bias)
        /\ Label_bias1_bias \in DOMAIN cal_dict.calibrations
        /\ cal_dict.calibrations[Label_bias1_bias] = <<File_bias1>>
        /\ n_lookups[<<File_sci1, Type_flat>>] = 1
        /\ n_lookups[<<File_flat1, Type_bias>>] = 1
        /\ n_lookups[<<File_sci1, Type_bias>>] = 1
        /\ call_lookups = 3

\* the scenario's call has returned, with the checksum of the flat recorded
C13_Witness ==
    /\ ScenarioDone
    /\ File_flat1 \in DOMAIN cal_dict.checksums
    /\ cal_dict.checksums[File_flat1] = Cks_A

\* the latest add_cal_entry invocation was given an empty list of matches
AddedEmpty ==
    /\ last_add.done
    /\ ~last_add.raised
    /\ last_add.matches = << >>

\* C14: add_cal_entry(filename, cal_type, [], cal_dict) leaves
\* associations[filename] existing with associations[filename][cal_type] set
\* to None, and calibrations and checksums exactly as they were.
C14_Placeholder ==
    AddedEmpty =>
        /\ HasAssociation(cal_dict, last_add.filename, last_add.cal_type)
        /\ AssocOf(cal_dict, last_add.filename, last_add.cal_type) = None
        /\ cal_dict.calibrations = last_add.before.calibrations
        /\ cal_dict.checksums = last_add.before.checksums

\* an empty list recorded for a file that had no associations at all, in a
\* dictionary that already held a group and a checksum
C14_Witness ==
    /\ AddedEmpty
    /\ last_add.filename \notin DOMAIN last_add.before.associations
    /\ last_add.before.calibrations # EmptyDict
    /\ last_add.before.checksums # EmptyDict

\* every association of cd is in cd2 with the same value
SameAssociations(cd, cd2) ==
    \A f \in DOMAIN cd.associations :
        \A t \in DOMAIN cd.associations[f] :
            /\ HasAssociation(cd2, f, t)
            /\ AssocOf(cd2, f, t) = AssocOf(cd, f, t)

\* C15: no step of a recurse_file_cals call changes an association that
\* existed when the call began, label or None, or one the call has created
\* since; and add_cal_entry is only invoked for a pair that has no association
\* yet, so that each association the call creates is written exactly once.
C15_ResolverPreserves ==
    [][~Idle =>
          /\ SameAssociations(store0, cal_dict')
          /\ SameAssociations(cal_dict, cal_dict')
          /\ n_valid' # n_valid =>
                /\ ~HasAssociation(cal_dict, last_add'.filename,
                                   last_add'.cal_type)
                /\ HasAssociation(cal_dict', last_add'.filename,
                                  last_add'.cal_type)]_vars

\* a call that began with a label and a None placeholder recorded has
\* returned after adding associations of its own
C15_Witness ==
    /\ hist # << >>
    /\ Cur.op = "recurse_file_cals"
    /\ Outcome = "returned"
    /\ \E f \in DOMAIN store0.associations :
          \E t, u \in DOMAIN store0.associations[f] :
              /\ store0.associations[f][t] = None
              /\ store0.associations[f][u] # None
    /\ cal_dict.associations # store0.associations

\* the latest top-level call is a direct add_cal_entry that returned
DirectAdd ==
    /\ hist # << >>
    /\ Cur.op = "add_cal_entry"
    /\ Outcome = "returned"

\* C16: a direct add_cal_entry(filename, cal_type, matches, cal_dict) with
\* valid matches always sets associations[filename][cal_type] to the value
\* derived from this call's matches, whatever was there before: None for an
\* empty list, otherwise the label chosen for the sorted matches, under which
\* calibrations holds exactly their names in sorted order.
C16_RecorderOverwrites ==
    DirectAdd =>
        /\ HasAssociation(cal_dict, Cur.filename, Cur.type)
        /\ IF Cur.matches = << >>
           THEN AssocOf(cal_dict, Cur.filename, Cur.type) = None
           ELSE LET L == AssocOf(cal_dict, Cur.filename, Cur.type)
                IN  /\ L = ChooseLabel(store0.calibrations, Cur.type,
                                       sorted(Cur.matches))
                    /\ L \in DOMAIN cal_dict.calibrations
                    /\ cal_dict.calibrations[L] =
                          MatchNames(sorted(Cur.matches))

\* three direct calls for one pair: the second replaced the first's label by
\* another label, the third replaced that label by None
C16_Witness ==
    /\ Len(hist) = 3
    /\ DirectAdd
    /\ \A i \in {1, 2} :
          /\ hist[i].op = "add_cal_entry"
          /\ hist[i].outcome = "returned"
          /\ hist[i].filename = Cur.filename
          /\ hist[i].type = Cur.type
          /\ hist[i].label # None
    /\ hist[1].label # hist[2].label
    /\ Cur.matches = << >>
    /\ AssocOf(store0, Cur.filename, Cur.type) = hist[2].label
    /\ AssocOf(cal_dict, Cur.filename, Cur.type) = None

\* the latest top-level call is a direct add_cal_entry given matches that are
\* not all (filename, checksum) pairs
DirectAddInvalid ==
    /\ hist # << >>
    /\ Cur.op = "add_cal_entry"
    /\ ~ValidMatches(Cur.matches)

\* C17: add_cal_entry with matches that are not all 2-element pairs raises
\* ValueError and leaves the dictionary exactly as it was before the call: no
\* associations[filename] is created and nothing is added to calibrations or
\* checksums.
C17_InvalidShape ==
    DirectAddInvalid =>
        /\ Outcome = "ValueError"
        /\ cal_dict = store0
        /\ Cur.filename \notin DOMAIN store0.associations
              => Cur.filename \notin DOMAIN cal_dict.associations

\* a malformed list rejected for a file that has no associations, in a
\* dictionary that already holds entries
C17_Witness ==
    /\ DirectAddInvalid
    /\ Outcome = "ValueError"
    /\ store0.calibrations # EmptyDict
    /\ Cur.filename \notin DOMAIN store0.associations

\* the latest top-level call is an extract_cal_entries
Extracted == hist # << >> /\ Cur.op = "extract_cal_entries"

\* the files the reference argument of the latest call selects
ReferenceSet ==
    IF RefKind(Cur.filename) = "None" THEN DOMAIN store0.associations
    ELSE IF RefKind(Cur.filename) = "str" THEN {RefVal(Cur.filename)}
    ELSE {RefVal(Cur.filename)[i] : i \in DOMAIN RefVal(Cur.filename)}

\* the selected files that have an association for the call's cal_type
SelectedFiles == {f \in ReferenceSet : HasAssociation(store0, f, Cur.type)}

\* the labels those files are associated with
SelectedLabels == {AssocOf(store0, f, Cur.type) : f \in SelectedFiles}

\* C18: on a dictionary in which every label names a calibrations entry and
\* no selected file has None for cal_type, extract_cal_entries returns exactly
\* {L: calibrations[L]} over the labels L associated for cal_type with some
\* file of the reference set (every file for reference None, the one file for
\* a single name), one entry per distinct label.
C18_ExtractResult ==
    (Extracted /\ RefInv(store0) /\ None \notin SelectedLabels) =>
        /\ Outcome = "returned"
        /\ DOMAIN Cur.label = SelectedLabels
        /\ \A L \in SelectedLabels : Cur.label[L] = store0.calibrations[L]

\* two selected files share one label, a third association of another type is
\* left out, and the result has the one entry
C18_Witness ==
    /\ Extracted
    /\ Outcome = "returned"
    /\ None \notin SelectedLabels
    /\ Cardinality(SelectedFiles) = 2
    /\ Cardinality(SelectedLabels) = 1
    /\ Cardinality(DOMAIN store0.calibrations) >= 2
    /\ Cardinality(DOMAIN Cur.label) = 1

\* C19: extract_cal_entries leaves associations, calibrations and checksums
\* exactly as they were, whether it returns or raises.
C19_ExtractPure == Extracted => cal_dict = store0

\* an extract that raised on a dictionary holding labels, a None placeholder
\* and a checksum
C19_Witness ==
    /\ Extracted
    /\ Outcome = "KeyError"
    /\ store0.calibrations # EmptyDict
    /\ store0.checksums # EmptyDict

\* the latest top-level call is an init_cal_dict for the file; the hist entry
\* holds what was parsed (matches) and what was returned (label)
Loaded ==
    /\ hist # << >>
    /\ Cur.op = "init_cal_dict"
    /\ Cur.filename = CalFile

\* the values of the dict at key of a top-level dict, {} if that is no dict
ValuesAt(parsed, key) ==
    LET sub == {JItems(parsed)[i] :
                   i \in {n \in DOMAIN JKeys(parsed) : JKeys(parsed)[n] = key}}
    IN  UNION {{JItems(d)[i] : i \in DOMAIN JItems(d)} :
                  d \in {s \in sub : JType(s) = "dict"}}

\* the four shape conditions on a parsed file
WellShaped(parsed) ==
    /\ JType(parsed) = "dict"
    /\ Len(JKeys(parsed)) = 3
    /\ \A key \in {"associations", "calibrations", "checksums"} :
          \E i \in DOMAIN JKeys(parsed) : JKeys(parsed)[i] = key
    /\ \A i \in DOMAIN JItems(parsed) : JType(JItems(parsed)[i]) = "dict"
    /\ \A val \in ValuesAt(parsed, "associations") : JType(val) = "dict"
    /\ \A val \in ValuesAt(parsed, "calibrations") : JType(val) = "list"

\* C20: init_cal_dict for a file that exists and parses raises ValueError if
\* and only if the parsed value breaks one of these: it is a dict with exactly
\* the keys associations, calibrations and checksums; each of its values is a
\* dict; each value in associations is a dict; each value in calibrations is
\* a list.  Otherwise it returns the parsed content unchanged; for a malformed
\* file nothing is returned, so that the caller's dictionary stays as it was.
C20_LoadValidation ==
    Loaded =>
        /\ Outcome \in {"returned", "ValueError"}
        /\ Outcome = "ValueError" <=> ~WellShaped(Cur.matches)
        /\ Outcome = "returned" =>
              /\ Cur.label = Cur.matches
              /\ cal_dict = Cur.matches
        /\ Outcome = "ValueError" => cal_dict = store0

\* a file accepted although it holds values the test does not look at, then a
\* file rejected only for the second value of its calibrations
C20_Witness ==
    /\ Len(hist) = 2
    /\ Loaded
    /\ hist[1].op = "init_cal_dict"
    /\ hist[1].outcome = "returned"
    /\ hist[1].label = JCalDict(JAssoc, JCals, JDict(<<"c">>, <<JList(<< >>)>>))
    /\ Outcome = "ValueError"
    /\ Cur.matches =
          JCalDict(JAssoc,
                   JDict(<<"c_f", "c_b">>, <<JList(<<JStr>>), JStr>>), JCks)
    /\ cal_dict = hist[1].label

\* the latest top-level call is an init_cal_dict with no file to read: no
\* name was given, or the named file did not exist (the hist entry holds the
\* file as it was at the call in matches)
LoadedNothing ==
    /\ hist # << >>
    /\ Cur.op = "init_cal_dict"
    /\ Cur.filename = NoFile \/ FileState(Cur.matches) = "absent"

\* C21: init_cal_dict with no file name, or with the name of a file that does
\* not exist, raises nothing and returns the dictionary with three empty
\* sub-dictionaries.
C21_EmptyInit ==
    LoadedNothing =>
        /\ Outcome = "returned"
        /\ cal_dict = init_cal_dict
        /\ cal_dict.associations = EmptyDict
        /\ cal_dict.calibrations = EmptyDict
        /\ cal_dict.checksums = EmptyDict

\* the name of a file that does not exist was given, and the caller's
\* dictionary, which held entries, became the empty one
C21_Witness ==
    /\ LoadedNothing
    /\ Cur.filename = CalFile
    /\ FileState(disk) = "absent"
    /\ store0.calibrations # EmptyDict
    /\ cal_dict = init_cal_dict

\* the latest two top-level calls: a save_cal_dict that returned, then an
\* init_cal_dict of the file it wrote
SavedThenLoaded ==
    /\ Len(hist) >= 2
    /\ hist[Len(hist) - 1].op = "save_cal_dict"
    /\ hist[Len(hist) - 1].outcome = "returned"
    /\ Cur.op = "init_cal_dict"
    /\ Cur.filename = CalFile

\* C22: for every dictionary built from the empty one by add_cal_entry and
\* recurse_file_cals calls, save_cal_dict followed by init_cal_dict of the
\* same file passes the format test and returns a dictionary equal by value to
\* the one saved.
C22_RoundTrip ==
    SavedThenLoaded =>
        /\ Outcome = "returned"
        /\ cal_dict = store0

\* a dictionary with a label, a None placeholder, a group of two files and a
\* checksum went through the file
C22_Witness ==
    /\ SavedThenLoaded
    /\ Outcome = "returned"
    /\ \E f \in DOMAIN cal_dict.associations :
          \E t, u \in DOMAIN cal_dict.associations[f] :
              /\ cal_dict.associations[f][t] = None
              /\ cal_dict.associations[f][u] # None
    /\ \E L \in DOMAIN cal_dict.calibrations :
          Len(cal_dict.calibrations[L]) = 2
    /\ cal_dict.checksums # EmptyDict

\* how many times the match x occurs in the list
Occurrences(matches, x) ==
    Cardinality({i \in DOMAIN matches : matches[i] = x})

\* the orderings of one match list
Orderings(matches) ==
    {p \in MatchLists :
        /\ Len(p) = Len(matches)
        /\ \A i \in DOMAIN matches :
              Occurrences(p, matches[i]) = Occurrences(matches, matches[i])}

\* C23: for any dictionary and any two orderings of the same match list,
\* add_cal_entry produces equal dictionaries: the same label, the same order
\* of the files in calibrations and the same checksums.
C23_OrderIndependent ==
    (last_add.done /\ ~last_add.raised) =>
        \A p \in Orderings(last_add.matches) :
            add_cal_entry(last_add.filename, last_add.cal_type, p,
                          last_add.before) = cal_dict

\* two different files were given in descending order, one with a checksum,
\* to a dictionary that already held a group
C23_Witness ==
    /\ last_add.done
    /\ ~last_add.raised
    /\ Len(last_add.matches) = 2
    /\ StrLess(last_add.matches[2][1], last_add.matches[1][1])
    /\ last_add.before.calibrations # EmptyDict
    /\ cal_dict.checksums # last_add.before.checksums

\* the latest call is a save_cal_dict that failed
SaveFailed ==
    /\ hist # << >>
    /\ Cur.op = "save_cal_dict"
    /\ Outcome = "IOError"

\* C24: if save_cal_dict fails at any point, the file holds either its
\* complete previous content or the complete new text, never a cut,
\* partial or empty file.
C24_AtomicSave ==
    SaveFailed => (disk = Cur.matches \/ disk = WholeFile(Cur.label))

\* the i-th top-level call is a save_cal_dict
IsSave(i) == hist[i].op = "save_cal_dict"

\* C25: two save_cal_dict calls on dictionaries that are equal by value write
\* identical text, whatever the order in which the dictionaries yield their
\* keys; in particular repeated saves of an unchanged dictionary are
\* identical.
C25_DeterministicSave ==
    \A i \in DOMAIN hist :
        IsSave(i) =>
            /\ i = Len(hist) =>
                  \A iter \in IterOrders :
                      hist[i].label = json_dumps(cal_dict, iter)
            /\ (i > 1 /\ IsSave(i - 1)) => hist[i].label = hist[i - 1].label

\* a dictionary in which one file has two associations was saved twice
C25_Witness ==
    /\ Len(hist) >= 2
    /\ IsSave(Len(hist))
    /\ IsSave(Len(hist) - 1)
    /\ Outcome = "returned"
    /\ hist[Len(hist) - 1].outcome = "returned"
    /\ \E f \in DOMAIN cal_dict.associations :
          Cardinality(DOMAIN cal_dict.associations[f]) = 2
    /\ disk = WholeFile(Cur.label)

\* the latest call is an init_cal_dict that accepted what it read
Accepted ==
    /\ hist # << >>
    /\ Cur.op = "init_cal_dict"
    /\ Outcome = "returned"

\* the latest call is a recurse_file_cals that raised KeyError
ResolveKeyError ==
    /\ hist # << >>
    /\ Cur.op = "recurse_file_cals"
    /\ Outcome = "KeyError"

\* C26: every dictionary that init_cal_dict accepts has each association
\* that is not None among the keys of calibrations, so recurse_file_cals on
\* an accepted, hand-edited dictionary never fails when it reads
\* calibrations[label] for an existing association.
C26_LoadedReferential ==
    /\ Accepted => RefInv(cal_dict)
    /\ ~ResolveKeyError

\* C27: on any dictionary reached by add_cal_entry and recurse_file_cals
\* calls, extract_cal_entries returns normally; a selected file whose
\* association for the cal_type is None contributes no entry to the result
\* and causes no error.
C27_ExtractTolerates ==
    Extracted =>
        /\ Outcome = "returned"
        /\ DOMAIN Cur.label = SelectedLabels \ {None}

\* a recurse_file_cals call is in progress
Resolving == ~Idle /\ Cur.op = "recurse_file_cals"

\* the number of observation types in the graph
NObsTypes == Cardinality(DOMAIN dependencies)

\* C28: for an acyclic dependency graph in which every listed calibration
\* type has its own entry and a lookup_fn returning lists, recurse_file_cals
\* terminates without a KeyError, and its recursion depth never exceeds the
\* number of observation types in the graph.
C28_Terminates ==
    /\ [](Len(stack) <= NObsTypes)
    /\ [](Outcome \notin {"KeyError", "RuntimeError"})
    /\ Resolving ~> (Idle /\ Outcome = "returned")

\* a call is as deep as the graph has observation types
C28_Witness ==
    /\ Resolving
    /\ Len(stack) = NObsTypes
    /\ Top.obs_type = Type_b
    /\ Len(hist) = MaxCalls

\* the latest call is recurse_file_cals(f, o), t is listed in
\* dependencies[o], and when the call began associations[f][t] held a label
\* that calibrations has
LabelledAtStart(t) ==
    /\ hist # << >>
    /\ Cur.op = "recurse_file_cals"
    /\ DepsEntry(dependencies, Cur.type).found
    /\ \E k \in DOMAIN DepsEntry(dependencies, Cur.type).list :
          DepsEntry(dependencies, Cur.type).list[k] = t
    /\ HasAssociation(store0, Cur.filename, t)
    /\ Truthy(AssocOf(store0, Cur.filename, t))
    /\ AssocOf(store0, Cur.filename, t) \in DOMAIN store0.calibrations

\* the association is as it was and, once the call has returned, every file
\* of the label's group has its dependencies resolved with t as obs_type,
\* the pairs it lacked having been looked up
FollowedGroup(t) ==
    LET L == AssocOf(store0, Cur.filename, t)
    IN  /\ HasAssociation(cal_dict, Cur.filename, t)
        /\ AssocOf(cal_dict, Cur.filename, t) = L
        /\ Outcome = "returned" =>
              \A i \in DOMAIN store0.calibrations[L] :
                  LET g == store0.calibrations[L][i]
                  IN  /\ Closed(g, t, RecursionLimit)
                      /\ \A k \in DOMAIN DepsEntry(dependencies, t).list :
                            LET u == DepsEntry(dependencies, t).list[k]
                            IN  ~HasAssociation(store0, g, u)
                                   => n_lookups[<<g, u>>] >= 1

\* C29: when associations[f][t] already holds a label L present in
\* calibrations (for example filled in by hand in place of None) and t is in
\* dependencies[o], recurse_file_cals(f, o) does not call lookup_fn(f, t),
\* leaves associations[f][t] equal to L, and still resolves the dependencies
\* of every file in calibrations[L] with t as its obs_type, looking up their
\* missing pairs.
C29_FollowedNotRequeried ==
    /\ [](\A t \in CalTypes : LabelledAtStart(t) => FollowedGroup(t))
    /\ [][\A t \in CalTypes :
             LabelledAtStart(t) =>
                 n_lookups'[<<Cur.filename, t>>]
                     = n_lookups[<<Cur.filename, t>>]]_vars

\* a file edited by hand, with a label filled in, was loaded; the call on
\* its file returned without a look-up for the labelled pair, having looked
\* up a pair of the group's file
C29_Witness ==
    /\ Len(hist) >= 2
    /\ hist[Len(hist) - 1].op = "init_cal_dict"
    /\ hist[Len(hist) - 1].outcome = "returned"
    /\ FileText(hist[Len(hist) - 1].matches) = Edited_filled
    /\ LabelledAtStart(Type_f)
    /\ Outcome = "returned"
    /\ n_lookups[<<Cur.filename, Type_f>>] = 0
    /\ call_lookups >= 1
    /\ \E g \in Files :
          /\ ~HasAssociation(store0, g, Type_b)
          /\ n_lookups[<<g, Type_b>>] = 1

\* the pair has an association and, if that is a label, the first n files of
\* its group have their dependencies resolved with cal_type as obs_type
GroupDone(filename, cal_type, n) ==
    /\ HasAssociation(cal_dict, filename, cal_type)
    /\ LET L == AssocOf(cal_dict, filename, cal_type)
       IN  Truthy(L) =>
              \A i \in DOMAIN cal_dict.calibrations[L] :
                  i <= n => Closed(cal_dict.calibrations[L][i], cal_type,
                                   RecursionLimit)

\* the number of dep_files the d-th frame has finished in its inner loop: a
\* frame below the top is waiting for the call it made for dep_file j - 1
FilesDone(d) ==
    IF d = Len(stack) THEN stack[d].j - 1 ELSE stack[d].j - 2

\* C30: for a file whose dependencies[obs_type] is [t1, t2, ...],
\* recurse_file_cals handles the types in that order, and every look-up made
\* for the files in the group found for t_i (and for their dependencies in
\* turn, visiting the group's files in stored order) happens before the
\* look-up for (file, t_{i+1}): when a call is at t_k, every earlier type's
\* group is resolved throughout, and so are the files of t_k's group before
\* the one being visited.
C30_DepthFirstInOrder ==
    \A d \in DOMAIN stack :
        LET fr == stack[d]
        IN  /\ \A k \in DOMAIN DepsOf(fr) :
                  k < fr.k =>
                      GroupDone(fr.filename, DepsOf(fr)[k], MaxMatches)
            /\ fr.pc = "recurse" =>
                  GroupDone(fr.filename, CalTypeOf(fr), FilesDone(d))

\* the outermost call is about to look up its second type, after the look-up
\* for its first type and the one for the file of that type's group
C30_Witness ==
    /\ Len(stack) = 1
    /\ AtLookup
    /\ Top.k = 2
    /\ call_lookups = 2
    /\ Truthy(AssocOf(cal_dict, Top.filename, DepsOf(Top)[1]))
    /\ \E g \in Files \ {Top.filename} : n_lookups[<<g, Type_b>>] = 1

\* the latest add_cal_entry returned after recording matches
AddedGroup ==
    /\ last_add.done
    /\ ~last_add.raised
    /\ last_add.matches # << >>

\* label_base and ref_ext of the latest add_cal_entry
LastRef == splitext(sorted(last_add.matches)[1][1])

LastBase == Format(LastRef[1], last_add.cal_type)

\* the n-th label of the sequence label_base, label_base_1, ... is taken by
\* a different list in the dictionary the latest add_cal_entry was given
TakenAt(n) ==
    LET label == LabelAt(LastBase, LastRef[2], n)
    IN  /\ label \in DOMAIN last_add.before.calibrations
        /\ last_add.before.calibrations[label]
              # MatchNames(sorted(last_add.matches))

\* the number of retries after which the latest add_cal_entry chose n
ChosenAt(n) ==
    /\ AssocOf(cal_dict, last_add.filename, last_add.cal_type)
          = LabelAt(LastBase, LastRef[2], n)
    /\ ~TakenAt(n)
    /\ \A i \in 0..(n - 1) : TakenAt(i)

\* C31: the suffix loop of add_cal_entry ends after at most as many retries
\* as calibrations has entries, and the label it selects is the first of
\* label_base, label_base_1, label_base_2, ... (extension reattached) that is
\* either absent from calibrations or already holds a list identical to the
\* new sorted file names.
C31_FirstFreeLabel ==
    AddedGroup =>
        \E n \in 0..Cardinality(DOMAIN last_add.before.calibrations) :
            ChosenAt(n)

\* the loop retried as many times as calibrations had entries: two
C31_Witness ==
    /\ AddedGroup
    /\ Cardinality(DOMAIN last_add.before.calibrations) = 2
    /\ ChosenAt(2)

\* the lexicographically lowest file name among the matches
LowestName(matches) ==
    CHOOSE x \in {matches[i][1] : i \in DOMAIN matches} :
        \A i \in DOMAIN matches : ~StrLess(matches[i][1], x)

\* that name with its extension stripped, '_' and cal_type, and the
\* extension put back
DerivedLabel(matches, cal_type) ==
    LET low == LowestName(matches)
        dot == FindSep(low, 1)
    IN  IF dot = 0 THEN low \o <<95>> \o cal_type
        ELSE SubSeq(low, 1, dot - 1) \o <<95>> \o cal_type
                 \o SubSeq(low, dot, Len(low))

\* C32: when no different entry occupies the candidate label, add_cal_entry
\* with non-empty matches assigns the label formed from the lowest matched
\* file name with its extension stripped, followed by '_' and cal_type, with
\* the extension reattached; the result depends only on the sorted file names
\* and cal_type, not on the requesting file or on the rest of the dictionary.
C32_LabelDerivation ==
    (AddedGroup /\ ~TakenAt(0)) =>
        /\ AssocOf(cal_dict, last_add.filename, last_add.cal_type)
              = DerivedLabel(last_add.matches, last_add.cal_type)
        /\ \A g \in Files, p \in Orderings(last_add.matches) :
              AssocOf(add_cal_entry(g, last_add.cal_type, p, init_cal_dict),
                      g, last_add.cal_type)
                  = DerivedLabel(last_add.matches, last_add.cal_type)

\* the file with no extension asked, the matches came in descending order,
\* the lowest has an extension, and the dictionary held another group
C32_Witness ==
    /\ AddedGroup
    /\ ~TakenAt(0)
    /\ last_add.filename = File_c
    /\ Len(last_add.matches) = 2
    /\ last_add.matches[1][1] = File_c
    /\ last_add.matches[2][1] = File_ax
    /\ LastRef[2] # None
    /\ last_add.before.calibrations # EmptyDict
    /\ DOMAIN cal_dict.calibrations # DOMAIN last_add.before.calibrations

\* C33: in any dictionary reached from the empty one by add_cal_entry calls,
\* whenever associations[f1][t1] and associations[f2][t2] hold the same label
\* (not None), t1 = t2; a suffixed label of one type (type 'f' with suffix 1)
\* never coincides with a label of another type (type 'f_1').
C33_OneTypePerLabel ==
    \A f1, f2 \in DOMAIN cal_dict.associations :
        \A t1 \in DOMAIN cal_dict.associations[f1],
           t2 \in DOMAIN cal_dict.associations[f2] :
            (/\ cal_dict.associations[f1][t1] # None
             /\ cal_dict.associations[f1][t1] = cal_dict.associations[f2][t2])
                => t1 = t2

\* C34: every calibrations list created by add_cal_entry is strictly
\* ascending in file name (sorted and with no name repeated), including when
\* the matches passed in name the same file more than once, for example with
\* two different checksums.
C34_GroupsStrictlyAscending ==
    \A L \in DOMAIN cal_dict.calibrations :
        \A i, j \in DOMAIN cal_dict.calibrations[L] :
            i < j => StrLess(cal_dict.calibrations[L][i],
                             cal_dict.calibrations[L][j])

\* the latest add_cal_entry returned
Added == last_add.done /\ ~last_add.raised

\* the file names in the matches of the latest add_cal_entry
LastNames == {last_add.matches[i][1] : i \in DOMAIN last_add.matches}

\* C35: a successful add_cal_entry(filename, cal_type, matches, cal_dict)
\* changes nothing in the dictionary except associations[filename][cal_type],
\* at most one newly added calibrations key, and newly added checksums keys
\* for files named in matches; every associations entry of any other file or
\* any other calibration type is unchanged.
C35_AddFrame ==
    Added =>
        LET old == last_add.before
        IN  /\ \A f \in DOMAIN cal_dict.associations :
                  \A t \in DOMAIN cal_dict.associations[f] :
                      <<f, t>> # <<last_add.filename, last_add.cal_type>> =>
                          /\ HasAssociation(old, f, t)
                          /\ AssocOf(old, f, t) = AssocOf(cal_dict, f, t)
            /\ \A f \in DOMAIN old.associations :
                  /\ f \in DOMAIN cal_dict.associations
                  /\ DOMAIN old.associations[f]
                         \subseteq DOMAIN cal_dict.associations[f]
            /\ \A L \in DOMAIN old.calibrations :
                  /\ L \in DOMAIN cal_dict.calibrations
                  /\ cal_dict.calibrations[L] = old.calibrations[L]
            /\ Cardinality(DOMAIN cal_dict.calibrations
                               \ DOMAIN old.calibrations) <= 1
            /\ \A c \in DOMAIN old.checksums :
                  /\ c \in DOMAIN cal_dict.checksums
                  /\ cal_dict.checksums[c] = old.checksums[c]
            /\ (DOMAIN cal_dict.checksums \ DOMAIN old.checksums)
                   \subseteq LastNames

\* the file had an association of another type, another file had one too,
\* and the call added a calibrations key and a checksum
C35_Witness ==
    /\ Added
    /\ \E t \in DOMAIN cal_dict.associations[last_add.filename] :
          t # last_add.cal_type
    /\ \E f \in DOMAIN last_add.before.associations : f # last_add.filename
    /\ DOMAIN cal_dict.calibrations # DOMAIN last_add.before.calibrations
    /\ DOMAIN cal_dict.checksums # DOMAIN last_add.before.checksums

\* every key of old, at both levels of associations, in calibrations and in
\* checksums, is a key of new
KeysKept(old, new) ==
    /\ DOMAIN old.associations \subseteq DOMAIN new.associations
    /\ \A f \in DOMAIN old.associations :
          DOMAIN old.associations[f] \subseteq DOMAIN new.associations[f]
    /\ DOMAIN old.calibrations \subseteq DOMAIN new.calibrations
    /\ DOMAIN old.checksums \subseteq DOMAIN new.checksums

\* C36: after any add_cal_entry or recurse_file_cals call, the key sets of
\* associations, of each associations[f], of calibrations and of checksums
\* are supersets of what they were before the call.
C36_NothingDeleted ==
    /\ hist # << >> => KeysKept(store0, cal_dict)
    /\ last_add.done => KeysKept(last_add.before, cal_dict)

\* a recurse_file_cals call on a dictionary that held a group has ended,
\* having added keys of all kinds
C36_Witness ==
    /\ hist # << >>
    /\ Cur.op = "recurse_file_cals"
    /\ Idle
    /\ store0.calibrations # EmptyDict
    /\ DOMAIN store0.associations # DOMAIN cal_dict.associations
    /\ DOMAIN store0.calibrations # DOMAIN cal_dict.calibrations
    /\ DOMAIN store0.checksums # DOMAIN cal_dict.checksums

(***************************************************************************)
(* ndmapper/io/_fits.py.  The FITS file is the list of its HDUs, the       *)
(* primary first; a file that does not exist, or is empty, has none.  An   *)
(* HDU is <<kind, name, ver, data>>: kind "primary", "image" or "table";   *)
(* name its EXTNAME ("" when it has none); ver its EXTVER (NoVer when it   *)
(* has none); data "none" (size 0), "old" (written before the call) or     *)
(* "new" (written by the call).                                            *)
(***************************************************************************)
\* hdu.ver of an HDU with no EXTVER
NoVer == -1

Hdu(kind, name, ver, data) == <<kind, name, ver, data>>

HduKind(hdu) == hdu[1]

HduName(hdu) == hdu[2]

HduVer(hdu) == hdu[3]

HduData(hdu) == hdu[4]

\* config['data_name'], config['uncertainty_name'], config['flags_name']
data_name == "SCI"

uncertainty_name == "VAR"

flags_name == "DQ"

\* pyfits.PrimaryHDU(header=...): a primary header with no data
phu == Hdu("primary", "PRIMARY", NoVer, "none")

\* the extensions a file's HDUs are drawn from
ExtHdus ==
    {Hdu("image", data_name, NoVer, "old"),
     Hdu("image", data_name, 1, "old"),
     Hdu("image", data_name, 2, "old"),
     Hdu("image", uncertainty_name, 1, "old"),
     Hdu("image", "", NoVer, "old"),
     Hdu("table", "", NoVer, "old")}

MaxExts == 4

FitsFiles ==
    {<< >>} \cup {<<phu>> \o exts : exts \in SeqsUpTo(ExtHdus, MaxExts)}

\* an optional value: None, or the value given
Opt_None == << >>

Opt(v) == <<v>>

\* the integers of S in ascending order
RECURSIVE IdxList(_)
IdxList(S) ==
    IF S = {} THEN << >>
    ELSE LET lo == CHOOSE x \in S : \A y \in S : x <= y
         IN  <<lo>> \o IdxList(S \ {lo})

\* the HDU at idx, counted from 0
HduAt(hdus, idx) == hdus[idx + 1]

\* "(isinstance(hdu, pyfits.ImageHDU) or idx==0) and hdu.size > 0"
IsImage(hdus, idx) ==
    /\ HduKind(HduAt(hdus, idx)) = "image" \/ idx = 0
    /\ HduData(HduAt(hdus, idx)) # "none"

ImageIdx(hdus) == {idx \in 0..(Len(hdus) - 1) : IsImage(hdus, idx)}

\* "if hdu.name and idx > 0: have_names = True"
have_names(hdus) ==
    \E idx \in ImageIdx(hdus) : HduName(HduAt(hdus, idx)) # "" /\ idx > 0

\* idx_dict['data'], ['uncertainty'] or ['flags'] before line 162
NamedIdx(hdus, name) ==
    IdxList({idx \in ImageIdx(hdus) : HduName(HduAt(hdus, idx)) = name})

\* idx_dict['undef']
UndefIdx(hdus) ==
    IdxList({idx \in ImageIdx(hdus) :
                /\ HduName(HduAt(hdus, idx))
                      \notin {data_name, uncertainty_name, flags_name}
                /\ HduName(HduAt(hdus, idx)) = "" \/ idx = 0})

\* idx_dict['data'] after "if not have_names"
DataIdx(hdus) ==
    IF have_names(hdus) THEN NamedIdx(hdus, data_name) ELSE UndefIdx(hdus)

\* extvers = [hdulist[idx].ver for idx in idx_dict['data']]
extvers(hdus) ==
    [k \in DOMAIN DataIdx(hdus) |-> HduVer(HduAt(hdus, DataIdx(hdus)[k]))]

\* "v in list"
InList(v, list) == \E k \in DOMAIN list : list[k] = v

\* "while thisver in extvers: thisver += 1"
RECURSIVE NextVer(_, _)
NextVer(thisver, vers) ==
    IF InList(thisver, vers) THEN NextVer(thisver + 1, vers) ELSE thisver

\* the first idx of idxs whose HDU has the given ver, None if there is none
FindVer(hdus, idxs, ver) ==
    LET hits == {k \in DOMAIN idxs : HduVer(HduAt(hdus, idxs[k])) = ver}
    IN  IF hits = {} THEN Opt_None
        ELSE Opt(idxs[CHOOSE k \in hits : \A h \in hits : k <= h])

NDMapIO(group_id, data_idx, uncertainty_idx, flags_idx) ==
    <<group_id, data_idx, uncertainty_idx, flags_idx>>

GroupId(ndmap) == ndmap[1]

\* the loop of lines 173-211 from its k-th iteration on
RECURSIVE MapLoop(_, _, _, _)
MapLoop(hdus, k, lastver, maplist) ==
    IF k > Len(DataIdx(hdus)) THEN maplist
    ELSE LET data_idx == DataIdx(hdus)[k]
             ver == HduVer(HduAt(hdus, data_idx))
             thisver == IF ver < 1 THEN NextVer(lastver + 1, extvers(hdus))
                        ELSE ver
             uncert_idx ==
                 IF ver < 1 THEN Opt_None
                 ELSE FindVer(hdus, NamedIdx(hdus, uncertainty_name), ver)
             flags_idx ==
                 IF ver < 1 THEN Opt_None
                 ELSE FindVer(hdus, NamedIdx(hdus, flags_name), ver)
         IN  MapLoop(hdus, k + 1, thisver,
                     Append(maplist, NDMapIO(thisver, data_idx, uncert_idx,
                                             flags_idx)))

\* maplist as map_file returns it
map_file(hdus) == MapLoop(hdus, 1, 0, << >>)

\* the arguments of save_list: data is a list of arrays or None; array_meta
\* and identifiers are None or lists, of headers or None and of (name, ver)
Arr_None == "None"

Arr == "arr"

Meta_None == "None"

Meta == "meta"

MaxData == 2

DataLists == SeqsUpTo({Arr_None, Arr}, MaxData)

MetaArgs ==
    {Opt_None} \cup {Opt(l) : l \in SeqsUpTo({Meta_None, Meta}, MaxData)}

\* (name, ver) for the n-th array
Ident(n) == <<Opt(data_name), Opt(n)>>

Ident_None == <<Opt_None, Opt_None>>

\* identifiers: None, one pair per array, or a list that is one pair short
IdentArgs(data) ==
    {Opt_None, Opt([n \in DOMAIN data |-> Ident(n)]),
     Opt([n \in 1..(Len(data) - 1) |-> Ident(n)])}

\* "if array_meta is None: array_meta = [None for arr in data]"
MetaList(data, array_meta) ==
    IF array_meta = Opt_None THEN [n \in DOMAIN data |-> Meta_None]
    ELSE array_meta[1]

\* "if identifiers is None: identifiers = [(None, None) for arr in data]"
IdentList(data, identifiers) ==
    IF identifiers = Opt_None THEN [n \in DOMAIN data |-> Ident_None]
    ELSE identifiers[1]

\* pyfits.ImageHDU(data=arr, header=..., name=name) with hdu.ver set
NewHdu(arr, ident) ==
    Hdu("image",
        IF ident[1] = Opt_None THEN "" ELSE ident[1][1],
        IF ident[2] = Opt_None THEN NoVer ELSE ident[2][1],
        IF arr = Arr_None THEN "none" ELSE "new")

\* the loop of lines 81-98 from its n-th iteration on
RECURSIVE SaveLoop(_, _, _, _, _, _)
SaveLoop(hdus, oldlen, data, metas, idents, n) ==
    IF n > Len(data) THEN hdus
    ELSE LET given == \/ data[n] # Arr_None
                      \/ metas[n] # Meta_None
                      \/ n > oldlen
             next == IF ~given THEN hdus
                     ELSE IF n <= oldlen
                     THEN [hdus EXCEPT ![n + 1] = NewHdu(data[n], idents[n])]
                     ELSE Append(hdus, NewHdu(data[n], idents[n]))
         IN  SaveLoop(next, oldlen, data, metas, idents, n + 1)

\* save_list: <<how it ends, the file afterwards>>.  With no data the loop
\* variable n is never bound and "del hdulist[n+1:]" raises before
\* hdulist.close(), so nothing is written.
save_list(hdus, data, array_meta, identifiers) ==
    LET narr == Len(data)
        metas == MetaList(data, array_meta)
        idents == IdentList(data, identifiers)
        oldlen == Len(hdus) - 1
        withphu == IF oldlen = -1 THEN <<phu>> ELSE [hdus EXCEPT ![1] = phu]
    IN  IF Len(metas) # narr \/ Len(idents) # narr
        THEN <<"ValueError", hdus>>
        ELSE IF narr = 0 THEN <<"UnboundLocalError", hdus>>
        ELSE <<"returned",
               SubSeq(SaveLoop(withphu, oldlen, data, metas, idents, 1),
                      1, narr + 1)>>

FitsFile == "file.fits"

MaxFitsCalls == 1

CanFitsCall == Idle /\ Len(hist) < MaxFitsCalls

\* map_file(filename) on a file that pyfits.open cannot read
Call_map_file_nofile ==
    /\ CanFitsCall
    /\ hdulist = << >>
    /\ BeginCall("map_file", FitsFile, None, hdulist, << >>, {}, "IOError")
    /\ UNCHANGED <<disk, hdulist, cal_dict, dependencies, stack, last_add,
                   n_lookups, n_valid>>

\* map_file(filename): the file as it was read and the maplist returned
Call_map_file ==
    /\ CanFitsCall
    /\ hdulist # << >>
    /\ BeginCall("map_file", FitsFile, None, hdulist, map_file(hdulist), {},
                 "returned")
    /\ UNCHANGED <<disk, hdulist, cal_dict, dependencies, stack, last_add,
                   n_lookups, n_valid>>

\* save_list(filename, data, array_meta, identifiers, common_meta): the file
\* as it was and the arguments are kept in the call's record
Call_save_list(data, array_meta, identifiers) ==
    /\ CanFitsCall
    /\ LET r == save_list(hdulist, data, array_meta, identifiers)
       IN  /\ hdulist' = r[2]
           /\ BeginCall("save_list", FitsFile,
                        <<data, array_meta, identifiers>>, hdulist, None, {},
                        r[1])
    /\ UNCHANGED <<disk, cal_dict, dependencies, stack, last_add, n_lookups,
                   n_valid>>

InitFits ==
    /\ cal_dict = init_cal_dict
    /\ dependencies = Deps_chain
    /\ stack = << >>
    /\ hist = << >>
    /\ store0 = init_cal_dict
    /\ last_add = NoAdd
    /\ n_lookups = [p \in Pairs |-> 0]
    /\ n_valid = [p \in Pairs |-> 0]
    /\ call_lookups = 0
    /\ disk = NoDisk
    /\ hdulist \in FitsFiles

NextFits ==
    \/ Call_map_file_nofile
    \/ Call_map_file
    \/ \E data \in DataLists, array_meta \in MetaArgs :
          \E identifiers \in IdentArgs(data) :
              Call_save_list(data, array_meta, identifiers)

SpecFits == InitFits /\ [][NextFits]_vars

(***************************************************************************)
(* ndmapper/modes/gmos/spec/ifu.py, extract_spectra up to the point where  *)
(* task_inputs is complete (lines 324-352); the IRAF task it then runs is  *)
(* outside the program.  Each input is given by its cals dictionary.       *)
(***************************************************************************)
\* the cals dictionaries an input may have: 'flat', 'trace', both or none,
\* each naming a file or holding None
InputCals == UNION {[S -> {File_c, None}] : S \in SUBSET {"flat", "trace"}}

MaxInputs == 3

InputLists == SeqsUpTo(InputCals, MaxInputs)

\* [df.cals[key] if key in df.cals else None for df in inputs]
CalList(inputs, key) ==
    [i \in DOMAIN inputs |->
        IF key \in DOMAIN inputs[i] THEN inputs[i][key] ELSE None]

\* "None in flats"
NoneIn(list) == InList(None, list)

\* the test dropped: a list with gaps is never refused
Mixed_never(list) == FALSE

\* "None in flats" and "not all([entry is None for entry in flats])"
Mixed(list) == NoneIn(list) /\ \E i \in DOMAIN list : list[i] # None

\* task_inputs[param] = DataFileList(data=list), unless an entry is missing
WithCals(task_inputs, param, list) ==
    IF NoneIn(list) THEN task_inputs ELSE Put(task_inputs, param, list)

\* extract_spectra: <<how it ends, task_inputs>>
extract_spectra(inputs) ==
    LET flats == CalList(inputs, "flat")
        traces == CalList(inputs, "trace")
        task_inputs == Put(EmptyDict, "inimage", inputs)
    IN  IF Mixed(flats) THEN <<"KeyError", EmptyDict>>
        ELSE IF Mixed(traces) THEN <<"KeyError", EmptyDict>>
        ELSE <<"returned",
               WithCals(WithCals(task_inputs, "response", flats),
                        "reference", traces)>>

MaxStepCalls == 1

CanStepCall == Idle /\ Len(hist) < MaxStepCalls

\* the caller invokes extract_spectra(inputs): the inputs and the
\* task_inputs passed to the task are kept in the call's record
Call_extract_spectra(inputs) ==
    /\ CanStepCall
    /\ LET r == extract_spectra(inputs)
       IN  BeginCall("extract_spectra", None, None, inputs, r[2], {}, r[1])
    /\ UNCHANGED <<disk, hdulist, cal_dict, dependencies, stack, last_add,
                   n_lookups, n_valid>>

NextSteps == \E inputs \in InputLists : Call_extract_spectra(inputs)

SpecSteps == InitAdd /\ [][NextSteps]_vars

(***************************************************************************)
(* Properties of map_file, save_list and extract_spectra.                  *)
(***************************************************************************)
\* the data extensions of hdus that carry an EXTVER >= 1 in the file have
\* pairwise distinct EXTVERs
NumberedDistinct(hdus) ==
    \A a, b \in DOMAIN extvers(hdus) :
        a # b /\ extvers(hdus)[a] >= 1 /\ extvers(hdus)[b] >= 1
            => extvers(hdus)[a] # extvers(hdus)[b]

\* no two entries of maplist have the same group_id
GroupIdsDistinct(maplist) ==
    \A a, b \in DOMAIN maplist :
        a # b => GroupId(maplist[a]) # GroupId(maplist[b])

\* C37: when the data extensions that already carry an EXTVER >= 1 have
\* pairwise distinct EXTVERs, every NDMapIO that map_file returns has a
\* distinct group_id.
C37_UniqueGroupIds ==
    \A i \in DOMAIN hist :
        hist[i].op = "map_file" /\ hist[i].outcome = "returned"
            /\ NumberedDistinct(hist[i].matches)
            => GroupIdsDistinct(hist[i].label)

\* the latest call is save_list(filename, data, array_meta, identifiers, ...)
\* with array_meta and identifiers None or as long as data
SavedList ==
    /\ hist # << >>
    /\ Cur.op = "save_list"
    /\ Len(MetaList(Cur.type[1], Cur.type[2])) = Len(Cur.type[1])
    /\ Len(IdentList(Cur.type[1], Cur.type[3])) = Len(Cur.type[1])

\* the n-th extension was in the file and neither data nor meta is given
\* for it
Reused(n) ==
    /\ n <= Len(Cur.matches) - 1
    /\ Cur.type[1][n] = Arr_None
    /\ MetaList(Cur.type[1], Cur.type[2])[n] = Meta_None

\* C38: for every number N >= 0 of data entries and every number of
\* extensions already in the file, save_list returns normally and leaves
\* the file with exactly 1 + N HDUs; an existing extension n <= N is
\* replaced only when data or meta was given for it.
C38_ExtensionCount ==
    SavedList =>
        /\ Cur.outcome = "returned"
        /\ Len(hdulist) = 1 + Len(Cur.type[1])
        /\ \A n \in DOMAIN Cur.type[1] :
               Reused(n) => hdulist[n + 1] = Cur.matches[n + 1]

\* the same for N >= 1, where the loop binds n before line 102 reads it
SaveList_NonEmpty ==
    SavedList /\ Cur.type[1] # << >> => C38_ExtensionCount

\* the inputs and the task_inputs of the latest extract_spectra call
StepInputs == Cur.matches

StepTaskInputs == Cur.label

\* the input has an entry named key in its cals
HasEntry(inp, key) == key \in DOMAIN inp

\* the input has an entry named key in its cals that is not None
HasCal(inp, key) == key \in DOMAIN inp /\ inp[key] # None

\* The claim as stated, for one key and task parameter: passed iff every
\* input has the entry, omitted iff none has, KeyError iff some but not all.
AllOrNone_stated(key, param) ==
    LET every == \A i \in DOMAIN StepInputs : HasEntry(StepInputs[i], key)
        no == \A i \in DOMAIN StepInputs : ~HasEntry(StepInputs[i], key)
    IN  /\ ~every /\ ~no => Cur.outcome = "KeyError"
        /\ Cur.outcome = "returned" =>
              /\ param \in DOMAIN StepTaskInputs <=> every
              /\ param \notin DOMAIN StepTaskInputs <=> no

SomeNotAll(key) ==
    /\ \E i \in DOMAIN StepInputs : HasCal(StepInputs[i], key)
    /\ \E i \in DOMAIN StepInputs : ~HasCal(StepInputs[i], key)

\* the rule for one key and task parameter once the step has returned
AllOrNone(key, param) ==
    IF StepInputs = << >>
    THEN param \in DOMAIN StepTaskInputs /\ StepTaskInputs[param] = << >>
    ELSE IF \A i \in DOMAIN StepInputs : HasCal(StepInputs[i], key)
    THEN /\ param \in DOMAIN StepTaskInputs
         /\ StepTaskInputs[param] = CalList(StepInputs, key)
    ELSE param \notin DOMAIN StepTaskInputs

=============================================================================
